---- MODULE Spec2Model ----
(***************************************************************************)
(* Message shadow-store and edit / deletion reconciliation of bot.py:      *)
(* the messages table (save_message, get_message_full,                     *)
(* delete_message_from_db), the per-owner counters, the subscription       *)
(* check, the in-memory recent_deletions ledger and the three business     *)
(* handlers (message, edited message, deleted messages).                   *)
(*                                                                         *)
(* Python values: None of an id is 0, None of a str is the one-element     *)
(* sequence NoneStr, a str is the sequence of its code points, None of a   *)
(* path is the empty tuple, an Optional[dict] is <<>> or <<row>>.          *)
(***************************************************************************)
EXTENDS Integers, Sequences, FiniteSets, TLC

VARIABLES
    msgs,              \* table messages: a set of rows
    stats,             \* table stats: owner -> counters
    subscriptions,     \* table subscriptions: owner -> "none" | "active" | "expired" | "inactive"
    users,             \* table users: user_id -> [is_authenticated, is_banned], one entry per row
    subscription_rows, \* table subscriptions with its dates: user_id -> <<>> or <<row>>
    referrals,         \* table referrals: a set of rows, at most one per referred_id
    failed_logins,     \* table failed_logins of bot_multiuser.py: rows in insertion order
    banned_users,      \* table banned_users of bot_multiuser.py: the user ids
    tasks,             \* handlers in flight: each one's position and locals
    files,             \* paths present under saved_media/
    recent_deletions,  \* bot.py:43, chat_id -> sequence of <<timestamp, count>>
    now,               \* time.time(), in seconds
    ev,                \* the event handled last and what its handler computed
    log,               \* the effects of the handler of ev, in program order
    hist,              \* the save_message calls made directly (store contract)
    e2e                \* progress of the store -> edit -> delete scenario

vars == <<msgs, stats, subscriptions, users, subscription_rows, referrals, failed_logins, banned_users, tasks, files, recent_deletions, now, ev, log, hist, e2e>>

---------------------------------------------------------------------------
(* Values *)

NoneId == 0
NoneStr == <<0>>
NoPath == <<>>

Owners == {1, 2}
Chats == {3}
Hi == <<104, 105>>
Hello == <<104, 101, 108, 108, 111>>
Cap == <<67, 97, 112, 33>>
Blank == <<32>>

\* str.strip() on the texts of the model: whitespace-only text strips to "".
strip(s) == IF \A i \in 1..Len(s) : s[i] = 32 THEN <<>> ELSE s

\* Python truthiness of an Optional[str].
Truthy(s) == s # NoneStr /\ s # <<>>

\* a or b, for Optional[str].
OrStr(a, b) == IF Truthy(a) THEN a ELSE b

to_fancy_wrong(text) == text

\* bot.py to_fancy: A..Z -> U+1D4D0.., a..z -> U+1D4EA.., anything else unchanged.
to_fancy(text) ==
    [i \in 1..Len(text) |->
        IF text[i] \in 65..90 THEN text[i] + 119695
        ELSE IF text[i] \in 97..122 THEN text[i] + 119689
        ELSE text[i]]

---------------------------------------------------------------------------
(* Table messages *)

Row(owner_id, chat_id, message_id, user_id, text, media_type, file_path, caption, links) ==
    [owner_id |-> owner_id, chat_id |-> chat_id, message_id |-> message_id,
     user_id |-> user_id, text |-> text, media_type |-> media_type,
     file_path |-> file_path, caption |-> caption, links |-> links]

RowsAt(m, owner_id, chat_id, message_id) ==
    {r \in m : r.owner_id = owner_id /\ r.chat_id = chat_id /\ r.message_id = message_id}

\* A write that ignores the unique key: always INSERT.
save_message_insert_only(m, owner_id, chat_id, message_id, user_id, text, media_type, file_path, caption, links) ==
    m \cup {Row(owner_id, chat_id, message_id, user_id, OrStr(text, <<>>),
                media_type, file_path, caption, links)}

\* A write that appends the new text to the stored one on conflict.
save_message_append(m, owner_id, chat_id, message_id, user_id, text, media_type, file_path, caption, links) ==
    LET old == RowsAt(m, owner_id, chat_id, message_id)
        t == OrStr(text, <<>>)
    IN  IF old = {}
        THEN m \cup {Row(owner_id, chat_id, message_id, user_id, t, media_type, file_path, caption, links)}
        ELSE (m \ old) \cup
             {[r EXCEPT !.text = r.text \o t, !.media_type = media_type,
                        !.file_path = file_path, !.caption = caption, !.links = links] : r \in old}

\* INSERT ... ON CONFLICT (owner_id, chat_id, message_id) DO UPDATE SET text,
\* media_type, file_path, caption, links. user_id is not in the SET list.
save_message(m, owner_id, chat_id, message_id, user_id, text, media_type, file_path, caption, links) ==
    LET old == RowsAt(m, owner_id, chat_id, message_id)
        t == OrStr(text, <<>>)
    IN  IF old = {}
        THEN m \cup {Row(owner_id, chat_id, message_id, user_id, t, media_type, file_path, caption, links)}
        ELSE (m \ old) \cup
             {[r EXCEPT !.text = t, !.media_type = media_type, !.file_path = file_path,
                        !.caption = caption, !.links = links] : r \in old}

\* SELECT user_id, text, media_type, file_path, caption, links ... fetchrow.
get_message_full(m, owner_id, chat_id, message_id) ==
    LET found == RowsAt(m, owner_id, chat_id, message_id)
    IN  IF found = {} THEN <<>>
        ELSE LET r == CHOOSE x \in found : TRUE
             IN  <<[user_id |-> r.user_id, text |-> r.text, media_type |-> r.media_type,
                    file_path |-> r.file_path, caption |-> r.caption, links |-> r.links]>>

delete_message_from_db(m, owner_id, chat_id, message_id) ==
    m \ RowsAt(m, owner_id, chat_id, message_id)

\* SELECT COUNT(*) FROM messages WHERE chat_id = $1 AND owner_id = $2
count_for_chat(m, owner_id, chat_id) ==
    Cardinality({r \in m : r.owner_id = owner_id /\ r.chat_id = chat_id})

---------------------------------------------------------------------------
(* Tables stats, subscriptions, users, business_connections *)

ZeroStats == [total_messages |-> 0, total_edits |-> 0, total_deletes |-> 0]

\* INSERT ... ON CONFLICT (owner_id) DO UPDATE SET <stat_type> = <stat_type> + 1
increment_stat(s, owner_id, stat_type) ==
    IF stat_type = "total_messages"
    THEN [s EXCEPT ![owner_id].total_messages = @ + 1]
    ELSE IF stat_type = "total_edits"
    THEN [s EXCEPT ![owner_id].total_edits = @ + 1]
    ELSE IF stat_type = "total_deletes"
    THEN [s EXCEPT ![owner_id].total_deletes = @ + 1]
    ELSE s

\* check_subscription: "active" is is_active with end_date not passed,
\* "expired" is is_active with end_date passed (the check then clears is_active).
check_subscription_active(subs, user_id) == subs[user_id] = "active"

check_subscription_table(subs, user_id) ==
    IF subs[user_id] = "expired" THEN [subs EXCEPT ![user_id] = "inactive"] ELSE subs

is_user_authenticated(u, user_id) ==
    user_id \in DOMAIN u /\ u[user_id].is_authenticated /\ ~u[user_id].is_banned

\* business_connections: connection_id -> user_id; "cx" was never saved.
Conns == {"c1", "c2", "cx"}

get_user_by_connection(connection_id) ==
    IF connection_id = "c1" THEN 1
    ELSE IF connection_id = "c2" THEN 2
    ELSE NoneId

---------------------------------------------------------------------------
(* recent_deletions and the chat-clear test, bot.py:3638-3665 *)

Horizon == 10

ClearBatch == 2

ClearPercent == 20

ClearRecent == 3

RECURSIVE SumCounts(_)
SumCounts(w) == IF w = <<>> THEN 0 ELSE Head(w)[2] + SumCounts(Tail(w))

PruneKeepsAll(w, current_time) == w

\* [(t, c) for t, c in recent_deletions[chat_id] if current_time - t < 10]
Prune(w, current_time) ==
    SelectSeq(w, LAMBDA e : current_time - e[1] < Horizon)

\* prune, then append (current_time, len(message_ids))
TrackDeletion(w, current_time, n) == Append(Prune(w, current_time), <<current_time, n>>)

is_chat_clear_half(n, total_messages, total_recent_deletions) ==
    \/ n > 10
    \/ (total_messages > 0 /\ n * 100 > 50 * total_messages)

\* percentage = n / total * 100 if total > 0 else 0, compared exactly:
\* percentage > 20 iff n * 100 > 20 * total (n / total * 100 is exact at the
\* only boundary that decides, n = 1 and total = 5).
is_chat_clear(n, total_messages, total_recent_deletions) ==
    \/ n >= ClearBatch
    \/ (total_messages > 0 /\ n * 100 > ClearPercent * total_messages)
    \/ total_recent_deletions >= ClearRecent

---------------------------------------------------------------------------
(* handle_deleted_business_messages, bot.py:3586-3799 *)

\* The owner whose row an unordered fetchrow returns: any owner that has a
\* matching row; pref is the one the scan meets first.
PickOwner(cands, pref) == IF pref \in cands THEN pref ELSE CHOOSE o \in cands : TRUE

\* SELECT owner_id FROM messages WHERE chat_id = $1 AND message_id = ANY($2) LIMIT 1
FirstRowOwners(m, chat_id, ids) ==
    {r.owner_id : r \in {x \in m : x.chat_id = chat_id /\ \E i \in 1..Len(ids) : ids[i] = x.message_id}}

\* SELECT * FROM messages WHERE chat_id = $1 AND message_id = $2 (fetchrow)
FetchAny(m, chat_id, msg_id, pref) ==
    LET found == {r \in m : r.chat_id = chat_id /\ r.message_id = msg_id}
    IN  IF found = {} THEN <<>>
        ELSE LET o == PickOwner({r.owner_id : r \in found}, pref)
             IN  <<CHOOSE r \in found : r.owner_id = o>>

\* create_chat_html_backup(owner_id, chat_id, chat_name): the ids of the rows it
\* reads; it returns None when there is none.
create_chat_html_backup(m, owner_id, chat_id) ==
    {r.message_id : r \in {x \in m : x.owner_id = owner_id /\ x.chat_id = chat_id}}

\* What the full notification shows of a row: its text, else its caption (each
\* only if not blank, through to_fancy), and its links.
CaptionParts(row) ==
    [shown |-> IF Truthy(row.text) /\ strip(row.text) # <<>> THEN to_fancy(row.text)
               ELSE IF Truthy(row.caption) /\ strip(row.caption) # <<>> THEN to_fancy(row.caption)
               ELSE <<>>,
     links |-> row.links]

HasParts(p) == p.shown # <<>> \/ p.links # "None"

\* The sends of the media branch, in program order.
MediaSends(media_type) ==
    IF media_type \in {"photo", "photo_reply"} THEN <<"photo">>
    ELSE IF media_type \in {"video", "video_reply"} THEN <<"video">>
    ELSE IF media_type = "document" THEN <<"document">>
    ELSE IF media_type = "sticker" THEN <<"text", "sticker">>
    ELSE IF media_type = "voice" THEN <<"voice">>
    ELSE IF media_type = "video_note" THEN <<"video_note", "text">>
    ELSE IF media_type = "animation" THEN <<"animation">>
    ELSE <<>>

Send(owner_id, msg_id, kind, parts, ok) ==
    [op |-> "send", owner |-> owner_id, id |-> msg_id, kind |-> kind, parts |-> parts, ok |-> ok]

\* The sends of one try block: each send of `kinds` until one raises.
RECURSIVE TrySends(_, _, _, _, _, _)
TrySends(kinds, owner_id, msg_id, parts, down, mediaFail) ==
    IF kinds = <<>> THEN <<>>
    ELSE LET k == Head(kinds)
             ok == ~down /\ (k = "text" \/ ~mediaFail)
         IN  <<Send(owner_id, msg_id, k, parts, ok)>> \o
             (IF ok THEN TrySends(Tail(kinds), owner_id, msg_id, parts, down, mediaFail) ELSE <<>>)

Raised(sends) == sends # <<>> /\ ~sends[Len(sends)].ok

\* The sends of the full notification (active subscription) of one row.
FullNotification(row, fs, down, mediaFail) ==
    LET parts == CaptionParts(row)
        o == row.owner_id
        id == row.message_id
    IN  IF row.file_path # NoPath /\ row.file_path \in fs
        THEN LET first == TrySends(MediaSends(row.media_type), o, id, parts, down, mediaFail)
             IN  IF Raised(first)
                 THEN first \o <<Send(o, id, "text", parts, ~down)>>
                 ELSE first
        ELSE IF HasParts(parts)
        THEN <<Send(o, id, "text", parts, ~down)>>
        ELSE <<>>

DeleteRow(acc, row) ==
    [acc EXCEPT !.msgs = delete_message_from_db(acc.msgs, row.owner_id, row.chat_id, row.message_id),
                !.log = Append(acc.log, [op |-> "delete", owner |-> row.owner_id, id |-> row.message_id])]

\* A loop body without the own-message test: every found row is notified.
ProcessDeletedRowNoOwnTest(acc, row, failIds, mediaFail) ==
    LET o == row.owner_id
        id == row.message_id
        a1 == [acc EXCEPT !.stats = increment_stat(acc.stats, o, "total_deletes"),
                          !.log = acc.log \o <<[op |-> "incr", owner |-> o, id |-> id],
                                               Send(o, id, "stub", [shown |-> <<>>, links |-> "None"],
                                                    id \notin failIds)>>]
    IN  DeleteRow(a1, row)

\* A loop body that counts a deletion only when its notification went out.
ProcessDeletedRowCountsDelivered(acc, row, failIds, mediaFail) ==
    LET o == row.owner_id
        id == row.message_id
    IN  IF row.user_id = o
        THEN DeleteRow(acc, row)
        ELSE LET active == check_subscription_active(acc.subscriptions, o)
                 sends == IF ~active
                          THEN <<Send(o, id, "stub", [shown |-> <<>>, links |-> "None"], id \notin failIds)>>
                          ELSE FullNotification(row, acc.files, id \in failIds, mediaFail)
                 a1 == [acc EXCEPT !.stats = IF id \in failIds THEN @ ELSE increment_stat(@, o, "total_deletes"),
                                   !.subscriptions = check_subscription_table(acc.subscriptions, o),
                                   !.log = acc.log \o <<[op |-> "incr", owner |-> o, id |-> id]>> \o sends]
             IN  DeleteRow(a1, row)

\* One pass of the loop body for a row that was found, bot.py:3705-3799.
ProcessDeletedRow(acc, row, failIds, mediaFail) ==
    LET o == row.owner_id
        id == row.message_id
    IN  IF row.user_id = o
        THEN DeleteRow(acc, row)
        ELSE LET active == check_subscription_active(acc.subscriptions, o)
                 sends == IF ~active
                          THEN <<Send(o, id, "stub", [shown |-> <<>>, links |-> "None"], id \notin failIds)>>
                          ELSE FullNotification(row, acc.files, id \in failIds, mediaFail)
                 a1 == [acc EXCEPT !.stats = increment_stat(acc.stats, o, "total_deletes"),
                                   !.subscriptions = check_subscription_table(acc.subscriptions, o),
                                   !.log = acc.log \o <<[op |-> "incr", owner |-> o, id |-> id]>> \o sends]
             IN  DeleteRow(a1, row)

\* for msg_id in event.message_ids, bot.py:3697-3799
RECURSIVE DeletionLoop(_, _, _, _, _, _)
DeletionLoop(acc, chat_id, ids, pick, failIds, mediaFail) ==
    IF ids = <<>> THEN acc
    ELSE LET got == FetchAny(acc.msgs, chat_id, Head(ids), pick)
             a1 == IF got = <<>> THEN acc
                   ELSE ProcessDeletedRow(
                            [acc EXCEPT !.log = Append(acc.log, [op |-> "fetch", owner |-> got[1].owner_id,
                                                                  id |-> Head(ids), row |-> got[1]])],
                            got[1], failIds, mediaFail)
         IN  DeletionLoop(a1, chat_id, Tail(ids), pick, failIds, mediaFail)

\* message.reply_to_message when there is none.
NoReply == [message_id |-> 0, from_user |-> NoneId, media |-> "None", caption |-> NoneStr]

NoEvent ==
    [type |-> "none", reply |-> NoReply, conn |-> "cx", chat |-> 0, mid |-> 0, ids |-> <<>>, sender |-> NoneId,
     text |-> NoneStr, caption |-> NoneStr,
     owner |-> NoneId, outcome |-> "none", old |-> NoneStr, new |-> NoneStr,
     n |-> 0, total |-> 0, recent |-> 0, clear |-> FALSE]

\* The state a handler works on.
Db == [msgs |-> msgs, stats |-> stats, subscriptions |-> subscriptions, files |-> files,
       recent_deletions |-> recent_deletions, log |-> <<>>, ev |-> NoEvent]

ClassifyNoTracking(db, chat_id, ids, owner_id) ==
    LET n == Len(ids)
        total == count_for_chat(db.msgs, owner_id, chat_id)
    IN  [db EXCEPT !.ev = [@ EXCEPT !.n = n, !.total = total, !.recent = n,
                                   !.clear = is_chat_clear(n, total, n)]]

\* A classification whose total leaves out the rows of the batch.
ClassifyCountsRest(db, chat_id, ids, owner_id) ==
    LET n == Len(ids)
        rest == {r \in db.msgs : \A k \in 1..n : r.message_id # ids[k]}
        total == count_for_chat(rest, owner_id, chat_id)
        w == TrackDeletion(db.recent_deletions[chat_id], now, n)
        recent == SumCounts(w)
    IN  [db EXCEPT !.recent_deletions = [@ EXCEPT ![chat_id] = w],
                   !.ev = [@ EXCEPT !.n = n, !.total = total, !.recent = recent,
                                   !.clear = is_chat_clear(n, total, recent)]]

\* bot.py:3629-3665: count the chat's rows, update the ledger, classify.
Classify(db, chat_id, ids, owner_id) ==
    LET n == Len(ids)
        total == count_for_chat(db.msgs, owner_id, chat_id)
        w == TrackDeletion(db.recent_deletions[chat_id], now, n)
        recent == SumCounts(w)
    IN  [db EXCEPT !.recent_deletions = [@ EXCEPT ![chat_id] = w],
                   !.ev = [@ EXCEPT !.n = n, !.total = total, !.recent = recent,
                                   !.clear = is_chat_clear(n, total, recent)]]

\* What building and sending the archive can do: "ok"; "none" (the file
\* cannot be written, create_chat_html_backup returns None); "raises"
\* (create_chat_html_backup raises); "send_raises" (send_document raises).
ArchiveOutcomes == {"ok", "none", "raises", "send_raises"}

\* bot.py:3671-3695: on a chat clear, build the archive and send it. The call
\* of create_chat_html_backup is outside any try, send_document inside one.
ArchiveStep(db, chat_id, owner_id, docFail) ==
    IF ~db.ev.clear THEN db
    ELSE LET read == create_chat_html_backup(db.msgs, owner_id, chat_id)
             made == [op |-> "archive", owner |-> owner_id, id |-> 0, rows |-> read]
         IN  IF docFail = "raises"
             THEN [db EXCEPT !.log = Append(@, [op |-> "archive_raised", owner |-> owner_id, id |-> 0]),
                             !.ev = [@ EXCEPT !.outcome = "raised"]]
             ELSE IF read = {} \/ docFail = "none"
             THEN [db EXCEPT !.log = Append(@, made)]
             ELSE [db EXCEPT !.log = @ \o <<made, [op |-> "send", owner |-> owner_id, id |-> 0,
                                                    kind |-> "archive", parts |-> read,
                                                    ok |-> docFail # "send_raises"]>>]

\* A handler that runs the per-id loop first and builds the archive last.
handle_deleted_archive_last(db, chat_id, ids, pickFirst, pick, failIds, mediaFail, docFail) ==
    LET e0 == [NoEvent EXCEPT !.type = "deleted", !.chat = chat_id, !.ids = ids]
        owners == FirstRowOwners(db.msgs, chat_id, ids)
    IN  IF owners = {}
        THEN [db EXCEPT !.ev = [e0 EXCEPT !.outcome = "no_row"]]
        ELSE LET owner_id == PickOwner(owners, pickFirst)
                 d0 == [db EXCEPT !.ev = [e0 EXCEPT !.owner = owner_id, !.outcome = "done"]]
                 d1 == Classify(d0, chat_id, ids, owner_id)
                 d2 == DeletionLoop(d1, chat_id, ids, pick, failIds, mediaFail)
             IN  ArchiveStep(d2, chat_id, owner_id, docFail)

\* The whole handler. pickFirst and pick are the owners the two unordered
\* queries meet first; failIds are the ids whose sends all raise, mediaFail
\* makes every media send raise, docFail is the archive's outcome.
handle_deleted_business_messages(db, chat_id, ids, pickFirst, pick, failIds, mediaFail, docFail) ==
    LET e0 == [NoEvent EXCEPT !.type = "deleted", !.chat = chat_id, !.ids = ids]
        owners == FirstRowOwners(db.msgs, chat_id, ids)
    IN  IF owners = {}
        THEN [db EXCEPT !.ev = [e0 EXCEPT !.outcome = "no_row"]]
        ELSE LET owner_id == PickOwner(owners, pickFirst)
                 d0 == [db EXCEPT !.ev = [e0 EXCEPT !.owner = owner_id, !.outcome = "done"]]
                 d1 == Classify(d0, chat_id, ids, owner_id)
                 d2 == ArchiveStep(d1, chat_id, owner_id, docFail)
             IN  IF d2.ev.outcome = "raised" THEN d2
                 ELSE DeletionLoop(d2, chat_id, ids, pick, failIds, mediaFail)

---------------------------------------------------------------------------
(* handle_business_message, bot.py:3321-3520 *)

\* saved_media/{chat_id}_{message_id}_{suffix}
MediaPath(chat_id, message_id, suffix) == <<chat_id, message_id, suffix>>

\* A recovery that does not look at who sent the replied-to media.
RecoverFromAnyone(db, owner_id, chat_id, reply, kind, rdl, fwdFail) ==
    IF reply.message_id = 0 \/ reply.media # kind THEN db
    ELSE LET path == MediaPath(chat_id, reply.message_id, kind \o "_reply")
         IN  [db EXCEPT !.files = @ \cup {path},
                        !.log = @ \o <<[op |-> "download", owner |-> owner_id, id |-> reply.message_id, ok |-> TRUE],
                                       Send(owner_id, reply.message_id, kind \o "_reply",
                                            [shown |-> <<>>, links |-> "None"], TRUE),
                                       [op |-> "save", owner |-> owner_id, id |-> reply.message_id]>>,
                        !.msgs = save_message(@, owner_id, chat_id, reply.message_id, reply.from_user,
                                              <<>>, kind \o "_reply", path, reply.caption, "None")]

\* bot.py:3383-3419 (photo) and 3422-3457 (video): the reply trick. rdl is what
\* happens inside the try block: "ok", "raise" (bot.download raises), "nofile"
\* (bot.download returns and leaves no file), "saveraise" (save_message
\* raises); fwdFail makes the forward to the owner raise. Sets returned when
\* the handler returns from inside the block.
Recover(db, owner_id, chat_id, reply, kind, rdl, fwdFail) ==
    IF db.ev.outcome = "returned" \/ reply.message_id = 0 \/ reply.media # kind THEN db
    ELSE IF reply.from_user # NoneId /\ reply.from_user = owner_id THEN db
    ELSE LET path == MediaPath(chat_id, reply.message_id, kind \o "_reply")
             dl == [op |-> "download", owner |-> owner_id, id |-> reply.message_id, ok |-> rdl # "raise"]
             fs == IF rdl \in {"ok", "saveraise"} THEN db.files \cup {path} ELSE db.files
             d1 == [db EXCEPT !.files = fs, !.log = Append(@, dl)]
             fwd == Send(owner_id, reply.message_id, kind \o "_reply", [shown |-> <<>>, links |-> "None"], ~fwdFail)
         IN  IF rdl = "raise" THEN d1
             ELSE IF path \notin fs THEN [d1 EXCEPT !.ev = [@ EXCEPT !.outcome = "returned"]]
             ELSE IF fwdFail THEN [d1 EXCEPT !.log = Append(@, fwd)]
             ELSE IF rdl = "saveraise"
             THEN [d1 EXCEPT !.log = @ \o <<fwd, [op |-> "save_raised", owner |-> owner_id,
                                                  id |-> reply.message_id]>>]
             ELSE [d1 EXCEPT !.log = @ \o <<fwd, [op |-> "save", owner |-> owner_id, id |-> reply.message_id]>>,
                             !.msgs = save_message(@, owner_id, chat_id, reply.message_id, reply.from_user,
                                                   <<>>, kind \o "_reply", path, reply.caption, "None")]

\* A store step without the subscription gate.
StoreOwnUngated(db, owner_id, chat_id, message_id, from_user, text, caption, media, links, dl) ==
    [db EXCEPT !.msgs = save_message(@, owner_id, chat_id, message_id, from_user,
                                     OrStr(text, <<>>), media, NoPath, caption, links),
               !.stats = increment_stat(@, owner_id, "total_messages"),
               !.log = Append(@, [op |-> "save", owner |-> owner_id, id |-> message_id]),
               !.ev = [@ EXCEPT !.outcome = "done"]]

\* bot.py:3459-3520: the subscription gate, the message's own media, the store write.
\* media is the attachment kind ("None" if none), dl what its download does.
StoreOwn(db, owner_id, chat_id, message_id, from_user, text, caption, media, links, dl) ==
    IF db.ev.outcome = "returned" THEN db
    ELSE LET active == check_subscription_active(db.subscriptions, owner_id)
             d1 == [db EXCEPT !.subscriptions = check_subscription_table(@, owner_id)]
         IN  IF ~active THEN [d1 EXCEPT !.ev = [@ EXCEPT !.outcome = "no_subscription"]]
             ELSE LET media_type == media
                      file_path == IF media = "None" THEN NoPath ELSE MediaPath(chat_id, message_id, media)
                      fs == IF media # "None" /\ dl = "ok" THEN d1.files \cup {file_path} ELSE d1.files
                  IN  [d1 EXCEPT !.files = fs,
                                 !.msgs = save_message(@, owner_id, chat_id, message_id, from_user,
                                                       OrStr(text, <<>>), media_type, file_path, caption, links),
                                 !.stats = increment_stat(@, owner_id, "total_messages"),
                                 !.log = @ \o (IF media = "None" THEN <<>>
                                                ELSE <<[op |-> "download", owner |-> owner_id,
                                                        id |-> message_id, ok |-> dl = "ok"]>>)
                                          \o <<[op |-> "save", owner |-> owner_id, id |-> message_id]>>,
                                 !.ev = [@ EXCEPT !.outcome = "done"]]

handle_business_message(db, conn, chat_id, message_id, from_user, text, caption, media, links, reply, dl, rdl, fwdFail) ==
    LET owner_id == get_user_by_connection(conn)
        e0 == [NoEvent EXCEPT !.type = "message", !.conn = conn, !.chat = chat_id, !.mid = message_id,
                              !.sender = from_user, !.owner = owner_id, !.text = text, !.caption = caption,
                              !.new = OrStr(text, <<>>), !.reply = reply]
    IN  IF owner_id = NoneId THEN [db EXCEPT !.ev = [e0 EXCEPT !.outcome = "no_owner"]]
        ELSE IF ~is_user_authenticated(users, owner_id) THEN [db EXCEPT !.ev = [e0 EXCEPT !.outcome = "not_auth"]]
        ELSE LET d0 == [db EXCEPT !.ev = [e0 EXCEPT !.outcome = "running"]]
                 d1 == Recover(d0, owner_id, chat_id, reply, "photo", rdl, fwdFail)
                 d2 == Recover(d1, owner_id, chat_id, reply, "video", rdl, fwdFail)
             IN  StoreOwn(d2, owner_id, chat_id, message_id, from_user, text, caption, media, links, dl)

---------------------------------------------------------------------------
(* handle_edited_business_message, bot.py:3523-3584 *)

NotFoundMark == <<60, 105, 62>>

EmptyMark == <<60, 62>>

\* An edit that writes the store before it reads the old copy.
EditWriteFirst(db, owner_id, chat_id, message_id, from_user, text, caption, sendFail) ==
    LET new == OrStr(text, OrStr(caption, <<>>))
        m1 == save_message(db.msgs, owner_id, chat_id, message_id, from_user, new, "None", NoPath, caption, "None")
        old_data == get_message_full(m1, owner_id, chat_id, message_id)
        old == IF old_data # <<>> THEN old_data[1].text ELSE NoneStr
    IN  [db EXCEPT !.msgs = m1,
                   !.stats = increment_stat(@, owner_id, "total_edits"),
                   !.ev = [@ EXCEPT !.old = old, !.new = new, !.outcome = "done"]]

\* An edit that only notifies and leaves the stored copy as it was.
EditNoWrite(db, owner_id, chat_id, message_id, from_user, text, caption, sendFail) ==
    LET new == OrStr(text, OrStr(caption, <<>>))
        old_data == get_message_full(db.msgs, owner_id, chat_id, message_id)
        old == IF old_data # <<>> THEN old_data[1].text ELSE NoneStr
    IN  [db EXCEPT !.stats = increment_stat(@, owner_id, "total_edits"),
                   !.ev = [@ EXCEPT !.old = old, !.new = new, !.outcome = "done"]]

\* An edit that shows the new text as the old one when no copy is stored.
EditGuessOld(db, owner_id, chat_id, message_id, from_user, text, caption, sendFail) ==
    LET old_data == get_message_full(db.msgs, owner_id, chat_id, message_id)
        old == IF old_data # <<>> THEN old_data[1].text ELSE NoneStr
        new == OrStr(text, OrStr(caption, <<>>))
        shown == to_fancy(IF Truthy(old) THEN old ELSE new)
        note == [op |-> "send", owner |-> owner_id, id |-> message_id, kind |-> "edit_full",
                 old |-> shown, new |-> to_fancy(new), ok |-> ~sendFail]
    IN  [db EXCEPT !.msgs = save_message(@, owner_id, chat_id, message_id, from_user, new,
                                         "None", NoPath, caption, "None"),
                   !.stats = increment_stat(@, owner_id, "total_edits"),
                   !.log = @ \o <<[op |-> "save", owner |-> owner_id, id |-> message_id], note>>,
                   !.ev = [@ EXCEPT !.old = old, !.new = new, !.outcome = "done"]]

\* An edit that updates text and caption only and keeps the row's media.
EditKeepsMedia(db, owner_id, chat_id, message_id, from_user, text, caption, sendFail) ==
    LET old_data == get_message_full(db.msgs, owner_id, chat_id, message_id)
        old == IF old_data # <<>> THEN old_data[1].text ELSE NoneStr
        new == OrStr(text, OrStr(caption, <<>>))
        note == [op |-> "send", owner |-> owner_id, id |-> message_id, kind |-> "edit_full",
                 old |-> to_fancy(old), new |-> to_fancy(new), ok |-> ~sendFail]
    IN  [db EXCEPT !.msgs = IF old_data = <<>>
                            THEN save_message(@, owner_id, chat_id, message_id, from_user, new,
                                              "None", NoPath, caption, "None")
                            ELSE save_message(@, owner_id, chat_id, message_id, from_user, new,
                                              old_data[1].media_type, old_data[1].file_path, caption,
                                              old_data[1].links),
                   !.stats = increment_stat(@, owner_id, "total_edits"),
                   !.log = @ \o <<[op |-> "save", owner |-> owner_id, id |-> message_id], note>>,
                   !.ev = [@ EXCEPT !.old = old, !.new = new, !.outcome = "done"]]

\* bot.py:3538-3584, past the guards: read the old copy, write the new one,
\* count, notify (full if the subscription is active, else the stub).
EditBody(db, owner_id, chat_id, message_id, from_user, text, caption, sendFail) ==
    LET old_data == get_message_full(db.msgs, owner_id, chat_id, message_id)
        old == IF old_data # <<>> THEN old_data[1].text ELSE NoneStr
        new == OrStr(text, OrStr(caption, <<>>))
        active == check_subscription_active(db.subscriptions, owner_id)
        old_formatted == IF Truthy(old) THEN to_fancy(old) ELSE NotFoundMark
        new_formatted == IF Truthy(new) THEN to_fancy(new) ELSE EmptyMark
        note == IF active
                THEN [op |-> "send", owner |-> owner_id, id |-> message_id, kind |-> "edit_full",
                      old |-> old_formatted, new |-> new_formatted, ok |-> ~sendFail]
                ELSE [op |-> "send", owner |-> owner_id, id |-> message_id, kind |-> "edit_stub",
                      old |-> <<>>, new |-> <<>>, ok |-> ~sendFail]
    IN  [db EXCEPT !.msgs = save_message(@, owner_id, chat_id, message_id, from_user, new,
                                         "None", NoPath, caption, "None"),
                   !.stats = increment_stat(@, owner_id, "total_edits"),
                   !.subscriptions = check_subscription_table(@, owner_id),
                   !.log = @ \o <<[op |-> "save", owner |-> owner_id, id |-> message_id], note>>,
                   !.ev = [@ EXCEPT !.old = old, !.new = new, !.outcome = "done"]]

handle_edited_business_message(db, conn, chat_id, message_id, from_user, text, caption, sendFail) ==
    LET owner_id == get_user_by_connection(conn)
        e0 == [NoEvent EXCEPT !.type = "edited", !.conn = conn, !.chat = chat_id, !.mid = message_id,
                              !.sender = from_user, !.owner = owner_id, !.text = text, !.caption = caption]
        d0 == [db EXCEPT !.ev = e0]
    IN  IF owner_id = NoneId THEN [d0 EXCEPT !.ev = [@ EXCEPT !.outcome = "no_owner"]]
        ELSE IF ~is_user_authenticated(users, owner_id) THEN [d0 EXCEPT !.ev = [@ EXCEPT !.outcome = "not_auth"]]
        ELSE IF from_user # NoneId /\ from_user = owner_id THEN [d0 EXCEPT !.ev = [@ EXCEPT !.outcome = "self_edit"]]
        ELSE EditBody(d0, owner_id, chat_id, message_id, from_user, text, caption, sendFail)

---------------------------------------------------------------------------
(* Events *)

\* The handler's result becomes the next state.
Apply(r) ==
    /\ msgs' = r.msgs
    /\ stats' = r.stats
    /\ subscriptions' = r.subscriptions
    /\ files' = r.files
    /\ recent_deletions' = r.recent_deletions
    /\ ev' = r.ev
    /\ log' = r.log

\* dp.deleted_business_messages
DeletedMessages(chat_id, ids, pickFirst, pick, failIds, mediaFail, docFail) ==
    /\ Apply(handle_deleted_business_messages(Db, chat_id, ids, pickFirst, pick, failIds, mediaFail, docFail))
    /\ UNCHANGED <<users, subscription_rows, referrals, failed_logins, banned_users, tasks, now>>

\* dp.business_message
BusinessMessage(conn, chat_id, message_id, from_user, text, caption, media, links, reply, dl, rdl, fwdFail) ==
    /\ Apply(handle_business_message(Db, conn, chat_id, message_id, from_user, text, caption, media,
                                     links, reply, dl, rdl, fwdFail))
    /\ UNCHANGED <<users, subscription_rows, referrals, failed_logins, banned_users, tasks, now>>

\* dp.edited_business_message
EditedMessage(conn, chat_id, message_id, from_user, text, caption, sendFail) ==
    /\ Apply(handle_edited_business_message(Db, conn, chat_id, message_id, from_user, text, caption, sendFail))
    /\ UNCHANGED <<users, subscription_rows, referrals, failed_logins, banned_users, tasks, now>>

\* grant_subscription (bot.py:150)
Grant(user_id) ==
    /\ subscriptions[user_id] # "active"
    /\ subscriptions' = [subscriptions EXCEPT ![user_id] = "active"]
    /\ UNCHANGED <<msgs, stats, users, subscription_rows, referrals, failed_logins, banned_users, tasks, files, recent_deletions, now, ev, log, hist, e2e>>

\* revoke_subscription (bot.py:165): UPDATE ... SET is_active = FALSE
Revoke(user_id) ==
    /\ subscriptions[user_id] \in {"active", "expired"}
    /\ subscriptions' = [subscriptions EXCEPT ![user_id] = "inactive"]
    /\ UNCHANGED <<msgs, stats, users, subscription_rows, referrals, failed_logins, banned_users, tasks, files, recent_deletions, now, ev, log, hist, e2e>>

\* The end_date of an active subscription passes.
Expire(user_id) ==
    /\ subscriptions[user_id] = "active"
    /\ subscriptions' = [subscriptions EXCEPT ![user_id] = "expired"]
    /\ UNCHANGED <<msgs, stats, users, subscription_rows, referrals, failed_logins, banned_users, tasks, files, recent_deletions, now, ev, log, hist, e2e>>

MaxTime == 15

TickStep == 5

\* time.time() advances.
Tick ==
    /\ now + TickStep <= MaxTime
    /\ now' = now + TickStep
    /\ UNCHANGED <<msgs, stats, subscriptions, users, subscription_rows, referrals, failed_logins, banned_users, tasks, files, recent_deletions, ev, log, hist, e2e>>

InitTables ==
    /\ stats = [o \in Owners |-> ZeroStats]
    /\ users = [o \in Owners |-> [is_authenticated |-> TRUE, is_banned |-> FALSE]]
    /\ subscription_rows = [o \in Owners |-> <<>>]
    /\ referrals = {}
    /\ failed_logins = <<>>
    /\ banned_users = {}
    /\ tasks = <<>>
    /\ recent_deletions = [c \in Chats |-> <<>>]
    /\ now = 0
    /\ ev = NoEvent
    /\ log = <<>>
    /\ hist = <<>>
    /\ e2e = 0

---------------------------------------------------------------------------
(* Deletion bursts: a chat of `total` text rows of owner 1, deletion events *)
(* of one to MaxBatch ids (stored or not), time passing.                    *)

MaxBatch == 3

BigChat == 100

UnknownId == 999

\* Rows 1..k of owner 1 in chat 3; row 2 is the owner's own message.
ChatOf(k) == {Row(1, 3, i, IF i = 2 THEN 1 ELSE 3, Hi, "None", NoPath, NoneStr, "None") : i \in 1..k}

BurstBatches ==
    {<<i>> : i \in 1..MaxBatch} \cup {[j \in 1..k |-> j] : k \in 2..MaxBatch} \cup {<<UnknownId>>}

InitClassify ==
    /\ InitTables
    /\ msgs \in {ChatOf(MaxBatch + 3), ChatOf(BigChat)}
    /\ files = {}
    /\ subscriptions = [o \in Owners |-> "active"]

DeleteClassify ==
    \E ids \in BurstBatches :
        /\ DeletedMessages(3, ids, 1, 1, {}, FALSE, "ok")
        /\ UNCHANGED <<hist, e2e>>

NextClassify == DeleteClassify \/ Tick

SpecClassify == InitClassify /\ [][NextClassify]_vars

InitBurst ==
    /\ InitTables
    /\ msgs = ChatOf(MaxBatch + 5)
    /\ files = {}
    /\ subscriptions = [o \in Owners |-> "active"]

\* The last three deletion events: arrival time, batch size, and whether a
\* row of the chat was stored under one of the ids when the event arrived.
Arrival(chat_id, ids) ==
    [t |-> now, n |-> Len(ids),
     stored |-> \E r \in msgs : r.chat_id = chat_id /\ \E i \in 1..Len(ids) : ids[i] = r.message_id]

LastThree(h) == IF Len(h) > 3 THEN SubSeq(h, Len(h) - 2, Len(h)) ELSE h

DeleteBurst ==
    \E ids \in BurstBatches :
        /\ DeletedMessages(3, ids, 1, 1, {}, FALSE, "ok")
        /\ hist' = LastThree(Append(hist, Arrival(3, ids)))
        /\ UNCHANGED e2e

\* The bursts are watched for BurstTime seconds.
BurstTime == 10

TickBurst == now + TickStep <= BurstTime /\ Tick

NextBurst == DeleteBurst \/ TickBurst

SpecBurst == InitBurst /\ [][NextBurst]_vars

\* C3: a deletion batch that reaches classification is a chat clear exactly
\* when N >= 2, or total > 0 and N / total > 1/5, or recent_total >= 3; with
\* total = 100, N = 1 and nothing else in the window it is not a clear, and
\* N = 3 is a clear.
C3_ClearIff ==
    (ev.type = "deleted" /\ ev.outcome = "done") =>
        /\ ev.clear <=> (ev.n >= 2 \/ (ev.total > 0 /\ 5 * ev.n > ev.total) \/ ev.recent >= 3)
        /\ (ev.total = 100 /\ ev.n = 1 /\ ev.recent = 1) => ~ev.clear
        /\ ev.n = 3 => ev.clear

C3_Witness ==
    ev.type = "deleted" /\ ev.outcome = "done" /\ ev.total = 100 /\ ev.n = 1 /\ ev.recent = 1 /\ ~ev.clear

ThreeSingles == Len(hist) = 3 /\ \A i \in 1..3 : hist[i].n = 1

---------------------------------------------------------------------------
(* One deletion event on a stored chat: the store holds, per message id,   *)
(* one of the rows handle_business_message writes, for two owners who talk *)
(* to the same counterpart (chat 3).                                       *)

MaxMsgId == 2

MsgIds == 1..MaxMsgId

\* The rows of (owner, chat 3, id): none, a text of the counterpart, a text of
\* the owner, a photo of the counterpart with a caption, a message of the
\* counterpart with neither text nor media.
RowShapes(owner_id, id) ==
    {{},
     {Row(owner_id, 3, id, 3, Hi, "None", NoPath, NoneStr, "None")},
     {Row(owner_id, 3, id, owner_id, Hi, "None", NoPath, NoneStr, "None")},
     {Row(owner_id, 3, id, 3, <<>>, "photo", MediaPath(3, id, "photo"), Cap, "None")},
     {Row(owner_id, 3, id, 3, <<>>, "None", NoPath, NoneStr, "None")}}

\* Every choice of one shape per id for owner 1.
RECURSIVE StoresUpTo(_)
StoresUpTo(k) ==
    IF k = 0 THEN {{}}
    ELSE {m \cup x : m \in StoresUpTo(k - 1), x \in RowShapes(1, k)}

OtherOwnerRows ==
    {{},
     {Row(2, 3, 1, 3, Hello, "None", NoPath, NoneStr, "None")},
     {Row(2, 3, 1, 2, Hello, "None", NoPath, NoneStr, "None")}}

PathsOf(m) == {r.file_path : r \in {x \in m : x.file_path # NoPath}}

\* Ascending id sequences of the non-empty subsets of 1..k.
RECURSIVE Batches(_)
Batches(k) ==
    IF k = 0 THEN {<<>>}
    ELSE Batches(k - 1) \cup {Append(b, k) : b \in Batches(k - 1)}

IdsOf(b) == {b[i] : i \in 1..Len(b)}

\* A row's file is on disk when its download succeeded; when it raised the row
\* still names the path (bot.py:3469-3471 set file_path before the download).
InitDel ==
    /\ InitTables
    /\ \E m \in StoresUpTo(MaxMsgId), x \in OtherOwnerRows : msgs = m \cup x
    /\ files \in {PathsOf(msgs), {}}
    /\ \E sub \in {"active", "expired", "inactive"} : subscriptions = [o \in Owners |-> IF o = 1 THEN sub ELSE "active"]

DeleteOnce ==
    /\ ev.type = "none"
    /\ \E ids \in (Batches(MaxMsgId) \ {<<>>}) \cup {<<UnknownId>>}, pickFirst \in Owners, pick \in Owners,
          mediaFail \in BOOLEAN, docFail \in {"ok", "none", "send_raises"} :
          \E failIds \in {{}, {ids[1]}, IdsOf(ids)} :
              DeletedMessages(3, ids, pickFirst, pick, failIds, mediaFail, docFail)
    /\ UNCHANGED <<hist, e2e>>

NextDel == DeleteOnce

SpecDel == InitDel /\ [][NextDel]_vars

\* The sends of the handler of ev about message id to owner o (the archive of
\* a chat clear is about the chat, not about an id).
SendsAbout(o, id) ==
    {i \in 1..Len(log) : log[i].op = "send" /\ log[i].owner = o /\ log[i].id = id}

Fetched == {i \in 1..Len(log) : log[i].op = "fetch"}

OwnRow(r) == r.user_id = r.owner_id

Stored(r) == RowsAt(msgs, r.owner_id, r.chat_id, r.message_id) # {}

DeliveryRaised(r) ==
    /\ SendsAbout(r.owner_id, r.message_id) # {}
    /\ \A i \in SendsAbout(r.owner_id, r.message_id) : ~log[i].ok

\* C1 as stated: for a row of the batch that the counterpart wrote, if the
\* delivery of its deletion notification raises, the row is still stored
\* when the handler finishes.
C1_RowKeptWhenDeliveryRaises ==
    ev.type = "deleted" =>
        \A i \in Fetched : (~OwnRow(log[i].row) /\ DeliveryRaised(log[i].row)) => Stored(log[i].row)

\* C2: a row of the batch that its owner wrote is gone when the handler
\* finishes, nothing about its id was sent to the owner, and the owner's
\* deletion counter counts only the rows of the batch the counterpart wrote.
C2_OwnRowsDeletedSilently ==
    ev.type = "deleted" =>
        /\ \A i \in Fetched :
              OwnRow(log[i].row) =>
                  /\ ~Stored(log[i].row)
                  /\ SendsAbout(log[i].row.owner_id, log[i].row.message_id) = {}
                  /\ \A j \in 1..Len(log) :
                        ~(log[j].op = "incr" /\ log[j].owner = log[i].row.owner_id
                                             /\ log[j].id = log[i].row.message_id)
        /\ \A o \in Owners :
              stats[o].total_deletes =
                  Cardinality({i \in Fetched : log[i].row.owner_id = o /\ ~OwnRow(log[i].row)})

\* An own row and a counterpart's row handled in one batch.
C2_Witness ==
    /\ ev.type = "deleted" /\ ev.outcome = "done" /\ Len(ev.ids) = 2
    /\ \E i \in Fetched : OwnRow(log[i].row) /\ ~Stored(log[i].row)
    /\ \E i \in Fetched : ~OwnRow(log[i].row) /\ SendsAbout(log[i].row.owner_id, log[i].row.message_id) # {}

---------------------------------------------------------------------------
(* The life of one message: owner 1, chat 3, message 1 is stored, edited   *)
(* once or twice, then deleted, while the owner's subscription changes.    *)
(* e2e counts the steps done: 0 nothing, 1 stored, 2 and 3 edited, 4       *)
(* deleted; hist lists the texts written to the key.                       *)

\* What a message or an edit carries: a text, or a caption, or neither.
Bodies ==
    {[text |-> Hi, caption |-> NoneStr], [text |-> Hello, caption |-> NoneStr],
     [text |-> NoneStr, caption |-> Cap], [text |-> NoneStr, caption |-> NoneStr]}

InitSeq ==
    /\ InitTables
    /\ msgs = {}
    /\ files = {}
    /\ subscriptions = [o \in Owners |-> "active"]

SeqStore ==
    /\ e2e = 0
    /\ \E from_user \in {1, 3}, b \in Bodies, dl \in {"ok", "raise"} :
          BusinessMessage("c1", 3, 1, from_user, b.text, b.caption,
                          IF b.caption = NoneStr THEN "None" ELSE "photo", "None", NoReply, dl, "ok", FALSE)
    /\ e2e' = IF ev'.outcome = "done" THEN 1 ELSE 0
    /\ hist' = IF ev'.outcome = "done" THEN <<ev'.new>> ELSE hist

SeqEdit ==
    /\ e2e \in {1, 2}
    /\ \E from_user \in {1, 3}, b \in Bodies, sendFail \in BOOLEAN :
          EditedMessage("c1", 3, 1, from_user, b.text, b.caption, sendFail)
    /\ e2e' = IF ev'.outcome = "done" THEN e2e + 1 ELSE e2e
    /\ hist' = IF ev'.outcome = "done" THEN Append(hist, ev'.new) ELSE hist

SeqDelete ==
    /\ e2e \in {1, 2, 3}
    /\ \E failIds \in {{}, {1}}, mediaFail \in BOOLEAN, docFail \in {"ok", "none", "send_raises"} :
          DeletedMessages(3, <<1>>, 1, 1, failIds, mediaFail, docFail)
    /\ e2e' = 4
    /\ UNCHANGED hist

SeqSubscription == Grant(1) \/ Revoke(1) \/ Expire(1)

NextSeq == SeqStore \/ SeqEdit \/ SeqDelete \/ SeqSubscription

SpecSeq == InitSeq /\ [][NextSeq]_vars

TextAt(m) == {r.text : r \in RowsAt(m, 1, 3, 1)}

\* C5: in store -> edit -> edit by the counterpart on one key, each edit
\* handler takes as old exactly the text the store held just before it (the
\* stored text, then the first edit's new text); the full notification shows
\* it through to_fancy; and after each step the key holds one row whose text
\* is the latest text.
C5_EditReportsPriorText ==
    [][(e2e \in {1, 2} /\ e2e' = e2e + 1) =>
          /\ TextAt(msgs) = {ev'.old}
          /\ ev'.old = hist[Len(hist)]
          /\ TextAt(msgs') = {ev'.new}
          /\ Cardinality(RowsAt(msgs', 1, 3, 1)) = 1
          /\ \A i \in 1..Len(log') :
                (log'[i].op = "send" /\ log'[i].kind = "edit_full" /\ Truthy(ev'.old)) =>
                    log'[i].old = to_fancy(hist[Len(hist)])]_vars

\* Two edits done, the first from "hi" to "hello".
C5_Witness ==
    /\ e2e = 3 /\ Len(hist) = 3 /\ hist[1] = Hi /\ hist[2] = Hello /\ hist[3] = Hi
    /\ ev.type = "edited" /\ ev.old = Hello /\ ev.new = Hi /\ TextAt(msgs) = {Hi}

\* Positions in the effect list l of the sends to owner 1 about message 1,
\* and of the removal of the row of owner 1 with message id 1.
SenderAt(m) == {r.user_id : r \in RowsAt(m, 1, 3, 1)}

SendPositions(l) == {i \in 1..Len(l) : l[i].op = "send" /\ l[i].owner = 1 /\ l[i].id = 1}

DeletePositions(l) == {i \in 1..Len(l) : l[i].op = "delete" /\ l[i].owner = 1 /\ l[i].id = 1}

\* C6: owner 1, chat 3, message 1 from sender 3: after the store of "hi",
\* the edit to "hello" takes old = "hi" and new = "hello"; the deletion event
\* that follows attempts a notification to owner 1 before it removes the
\* row, removes it once, and leaves the key not found.
C6_StoreEditDelete ==
    [][/\ (e2e = 1 /\ e2e' = 2 /\ hist = <<Hi>> /\ SenderAt(msgs) = {3} /\ ev'.sender = 3
                                 /\ ev'.text = Hello) =>
              (ev'.old = Hi /\ ev'.new = Hello /\ TextAt(msgs') = {Hello})
       /\ (e2e = 2 /\ e2e' = 4 /\ hist = <<Hi, Hello>> /\ SenderAt(msgs) = {3}) =>
              /\ SendPositions(log') # {}
              /\ Cardinality(DeletePositions(log')) = 1
              /\ \A j \in DeletePositions(log') : \E i \in SendPositions(log') : i < j
              /\ get_message_full(msgs', 1, 3, 1) = <<>>]_vars

\* The scenario has run to its end: "hi" stored, edited to "hello", deleted.
C6_Witness ==
    /\ e2e = 4 /\ hist = <<Hi, Hello>> /\ ev.type = "deleted" /\ ev.outcome = "done"
    /\ \E i \in SendPositions(log) : log[i].kind = "text" /\ log[i].ok
    /\ DeletePositions(log) # {}
    /\ get_message_full(msgs, 1, 3, 1) = <<>>

\* C10: after an edit event sent by the owner on a stored key, the store
\* holds the edited text or caption, and the owner got no notification.
C10_OwnerEditUpdatesStore ==
    (ev.type = "edited" /\ ev.owner = 1 /\ ev.sender = ev.owner /\ SenderAt(msgs) = {1}) =>
        /\ TextAt(msgs) = {OrStr(ev.text, OrStr(ev.caption, <<>>))}
        /\ SendPositions(log) = {}

---------------------------------------------------------------------------
(* The store on its own: save_message and delete_message_from_db called    *)
(* directly on the keys (1, 3, 1) and (1, 3, 2), get_message_full and the  *)
(* chat's row count read after each call. hist holds the last two calls.   *)

StoreIds == {1, 2}

Link == "https://t.me/x"

\* The content arguments of a call.
Payloads ==
    {[text |-> Hi, media_type |-> "None", file_path |-> NoPath, caption |-> NoneStr, links |-> "None"],
     [text |-> Hello, media_type |-> "None", file_path |-> NoPath, caption |-> NoneStr, links |-> Link],
     [text |-> NoneStr, media_type |-> "photo", file_path |-> MediaPath(3, 1, "photo"),
      caption |-> Cap, links |-> "None"],
     [text |-> NoneStr, media_type |-> "None", file_path |-> NoPath, caption |-> NoneStr, links |-> "None"]}

InitStore ==
    /\ InitTables
    /\ msgs = {}
    /\ files = {}
    /\ subscriptions = [o \in Owners |-> "active"]

LastTwo(h) == IF Len(h) > 2 THEN SubSeq(h, Len(h) - 1, Len(h)) ELSE h

Called(op, message_id, user_id, p, m) ==
    [op |-> op, message_id |-> message_id, user_id |-> user_id, args |-> p,
     got |-> get_message_full(m, 1, 3, message_id), count |-> count_for_chat(m, 1, 3)]

SaveCall ==
    \E message_id \in StoreIds, user_id \in {NoneId, 1, 3}, p \in Payloads :
        /\ msgs' = save_message(msgs, 1, 3, message_id, user_id, p.text, p.media_type,
                                p.file_path, p.caption, p.links)
        /\ hist' = LastTwo(Append(hist, Called("save", message_id, user_id, p, msgs')))
        /\ UNCHANGED <<stats, subscriptions, users, subscription_rows, referrals, failed_logins, banned_users, tasks, files, recent_deletions, now, ev, log, e2e>>

DeleteCall ==
    \E message_id \in StoreIds :
        /\ msgs' = delete_message_from_db(msgs, 1, 3, message_id)
        /\ hist' = LastTwo(Append(hist, Called("delete", message_id, NoneId,
                                                 CHOOSE p \in Payloads : p.text = NoneStr /\ p.caption = NoneStr,
                                                 msgs')))
        /\ UNCHANGED <<stats, subscriptions, users, subscription_rows, referrals, failed_logins, banned_users, tasks, files, recent_deletions, now, ev, log, e2e>>

NextStore == SaveCall \/ DeleteCall

SpecStore == InitStore /\ [][NextStore]_vars

\* Two successive save_message calls on one key.
TwoSaves ==
    /\ Len(hist) = 2
    /\ hist[1].op = "save" /\ hist[2].op = "save"
    /\ hist[1].message_id = hist[2].message_id

\* What a read returns if the whole row is the call's.
RowOfCall(c) ==
    <<[user_id |-> c.user_id, text |-> OrStr(c.args.text, <<>>), media_type |-> c.args.media_type,
       file_path |-> c.args.file_path, caption |-> c.args.caption, links |-> c.args.links]>>

\* C8: after two successive save_message calls on one key, get_message_full
\* returns the second call's sender, text, media kind, media reference,
\* caption and links.
C8_LastWriteWinsWholeRow == TwoSaves => hist[2].got = RowOfCall(hist[2])

\* C9: a second save_message call with exactly the arguments of the first
\* leaves what get_message_full returns, and the chat's number of rows, as
\* they were after the first call.
C9_SaveIdempotent ==
    (TwoSaves /\ hist[1].user_id = hist[2].user_id /\ hist[1].args = hist[2].args) =>
        (hist[2].got = hist[1].got /\ hist[2].count = hist[1].count)

\* The same photo with caption was written twice to a chat holding two rows.
C9_Witness ==
    /\ TwoSaves /\ hist[1].user_id = hist[2].user_id /\ hist[1].args = hist[2].args
    /\ hist[2].args.media_type = "photo" /\ hist[2].count = 2
    /\ hist[2].got # <<>> /\ hist[2].got[1].caption = Cap

---------------------------------------------------------------------------
(* The bot as a whole: messages (plain, with media, replies to ephemeral   *)
(* media), edits and deletion events of two owners on the message ids of   *)
(* StoreIds in chat 3, and subscription changes of owner 1. e2e counts the *)
(* events handled, up to MaxEvents.                                        *)

MaxEvents == 3

OtherId(message_id) == CHOOSE i \in StoreIds : i # message_id

\* The messages of owner 1's chat: what they carry, what they reply to, and
\* what the downloads and the forward do.
Shapes(message_id) ==
    LET plain == [from_user |-> 3, text |-> Hi, caption |-> NoneStr, media |-> "None", reply |-> NoReply,
                  dl |-> "ok", rdl |-> "ok", fwdFail |-> FALSE]
        answer == [plain EXCEPT !.from_user = 1, !.text = Hello]
        to(kind) == [message_id |-> OtherId(message_id), from_user |-> 3, media |-> kind, caption |-> Cap]
    IN  {plain,
         [plain EXCEPT !.text = NoneStr, !.caption = Cap, !.media = "photo"],
         [answer EXCEPT !.reply = to("photo")],
         [answer EXCEPT !.reply = to("video"), !.fwdFail = TRUE],
         [answer EXCEPT !.reply = to("video")],
         [answer EXCEPT !.reply = to("photo"), !.rdl = "nofile"]}

Message ==
    /\ e2e < MaxEvents
    /\ \/ \E message_id \in StoreIds : \E s \in Shapes(message_id) :
             BusinessMessage("c1", 3, message_id, s.from_user, s.text, s.caption, s.media, "None",
                             s.reply, s.dl, s.rdl, s.fwdFail)
       \/ BusinessMessage("c2", 3, 1, 3, Hi, NoneStr, "None", "None", NoReply, "ok", "ok", FALSE)
    /\ e2e' = e2e + 1
    /\ UNCHANGED hist

Edit ==
    /\ e2e < MaxEvents
    /\ \/ \E message_id \in StoreIds :
             \E b \in {[from_user |-> 3, text |-> Hello, caption |-> NoneStr],
                       [from_user |-> 3, text |-> NoneStr, caption |-> Cap],
                       [from_user |-> 1, text |-> Hello, caption |-> NoneStr]} :
                 EditedMessage("c1", 3, message_id, b.from_user, b.text, b.caption, FALSE)
       \/ EditedMessage("c2", 3, 1, 3, Hello, NoneStr, TRUE)
    /\ e2e' = e2e + 1
    /\ UNCHANGED hist

Delete ==
    /\ e2e < MaxEvents
    /\ \E ids \in {<<1>>, <<2, 1>>}, pick \in Owners :
          DeletedMessages(3, ids, pick, pick, {}, FALSE, "ok")
    /\ e2e' = e2e + 1
    /\ UNCHANGED hist

Next == Message \/ Edit \/ Delete \/ SeqSubscription

Init == InitSeq

Spec == Init /\ [][Next]_vars

\* C7: the message store holds at most one row per (owner_id, chat_id,
\* message_id), whatever store, edit, recovery and deletion events came.
C7_OneRowPerKey ==
    \A r1 \in msgs : RowsAt(msgs, r1.owner_id, r1.chat_id, r1.message_id) = {r1}

\* A key that was written by a recovery and then written again by an edit
\* holds one row, the edit's.
C7_Witness ==
    /\ e2e >= 2 /\ ev.type = "edited" /\ ev.outcome = "done"
    /\ ev.old = <<>> /\ ev.new = Hello
    /\ \E r \in msgs : r.owner_id = ev.owner /\ r.message_id = ev.mid /\ r.text = Hello
    /\ Cardinality(msgs) = 2

\* The sends of the edit notification in the effect list l.
EditNotes(l) == {i \in 1..Len(l) : l[i].op = "send" /\ l[i].kind \in {"edit_full", "edit_stub"}}

\* C11: an edit by the counterpart of a key that has no stored row stores
\* the new text under the key; an owner with an active subscription is sent
\* the notification with the not-found marker as old text and the new text,
\* whether or not the send raises.
C11_EditOfUnknownKey ==
    [][(e2e' = e2e + 1 /\ ev'.type = "edited" /\ ev'.outcome = "done"
            /\ RowsAt(msgs, ev'.owner, ev'.chat, ev'.mid) = {}) =>
          /\ {r.text : r \in RowsAt(msgs', ev'.owner, ev'.chat, ev'.mid)} = {ev'.new}
          /\ ev'.new = OrStr(ev'.text, OrStr(ev'.caption, <<>>))
          /\ EditNotes(log') # {}
          /\ \A i \in EditNotes(log') :
                /\ log'[i].owner = ev'.owner
                /\ (subscriptions[ev'.owner] = "active") = (log'[i].kind = "edit_full")
                /\ log'[i].kind = "edit_full" =>
                      (log'[i].old = NotFoundMark /\ log'[i].new = to_fancy(ev'.new))]_vars

\* Owner 1 with an active subscription was told of an edit to "hello" of a
\* message the store never held.
C11_Witness ==
    /\ ev.type = "edited" /\ ev.outcome = "done" /\ ev.owner = 1 /\ ev.old = NoneStr /\ ev.new = Hello
    /\ \E i \in EditNotes(log) : log[i].kind = "edit_full" /\ log[i].old = NotFoundMark
                                  /\ log[i].new = to_fancy(Hello) /\ log[i].ok
    /\ get_message_full(msgs, 1, 3, ev.mid) # <<>>

---------------------------------------------------------------------------
(* Replies to ephemeral media: one message with id 2 of chat 3 arrives on  *)
(* owner 1's connection and replies to message 1, a photo or a video.      *)

InitReply ==
    /\ InitTables
    /\ msgs \in {{}, {Row(1, 3, 1, 3, <<>>, "photo", MediaPath(3, 1, "photo"), Cap, "None")}}
    /\ files \in {{}, {MediaPath(3, 1, "photo_reply")}}
    /\ subscriptions \in {[o \in Owners |-> IF o = 1 THEN v ELSE "active"] : v \in {"active", "expired", "inactive"}}

ReplyMessage ==
    /\ ev.type = "none"
    /\ \E from_user \in {1, 3}, replied \in {NoneId, 1, 3}, kind \in {"photo", "video"},
          rdl \in {"ok", "raise", "nofile", "saveraise"}, fwdFail \in BOOLEAN :
          BusinessMessage("c1", 3, 2, from_user, Hello, NoneStr, "None", "None",
                          [message_id |-> 1, from_user |-> replied, media |-> kind, caption |-> Cap],
                          "ok", rdl, fwdFail)
    /\ UNCHANGED <<hist, e2e>>

NextReply == ReplyMessage

SpecReply == InitReply /\ [][NextReply]_vars

Downloads(l) == {i \in 1..Len(l) : l[i].op = "download" /\ l[i].id = 1}

Forwards(l, kind) == {i \in 1..Len(l) : l[i].op = "send" /\ l[i].id = 1 /\ l[i].kind = kind}

SaveRaised(l) == \E i \in 1..Len(l) : l[i].op = "save_raised"

\* C12: a message that replies to a photo (video) not sent by the owner
\* makes the handler download it, then forward it to the owner, then store
\* a row under the replied-to id with media kind photo_reply (video_reply);
\* a reply to the owner's own photo (video) causes no download, no forward
\* and no change of the row under the replied-to id.
C12_ReplyRecovery ==
    [][(ev.type = "none" /\ ev'.type = "message") =>
          LET rp == ev'.reply
              k == rp.media \o "_reply"
              dls == Downloads(log')
              fwds == Forwards(log', k)
              rows == RowsAt(msgs', 1, 3, rp.message_id)
          IN  IF rp.from_user = ev'.owner
              THEN dls = {} /\ fwds = {} /\ rows = RowsAt(msgs, 1, 3, rp.message_id)
              ELSE /\ Cardinality(dls) = 1
                   /\ \A j \in fwds : \E i \in dls : i < j /\ log'[i].ok
                   /\ ((\A i \in dls : log'[i].ok) /\ MediaPath(3, 1, k) \in files') => fwds # {}
                   /\ ((\E j \in fwds : log'[j].ok) /\ ~SaveRaised(log')) =>
                          /\ rows # {}
                          /\ \A r \in rows : r.media_type = k /\ r.file_path = MediaPath(3, 1, k)
                                              /\ r.file_path \in files' /\ r.caption = rp.caption
                   /\ (\A j \in fwds : ~log'[j].ok) => rows = RowsAt(msgs, 1, 3, rp.message_id)]_vars

\* The counterpart's photo was downloaded, forwarded and stored as photo_reply.
C12_Witness ==
    /\ ev.type = "message" /\ ev.reply.from_user = 3 /\ ev.reply.media = "photo"
    /\ \E i \in Downloads(log), j \in Forwards(log, "photo_reply") : i < j /\ log[i].ok /\ log[j].ok
    /\ \E r \in RowsAt(msgs, 1, 3, 1) : r.media_type = "photo_reply" /\ r.file_path \in files

\* The recovery of the replied-to media was tried and did not complete.
RecoveryFailed ==
    /\ ev.type = "message" /\ ev.reply.message_id # 0 /\ ev.reply.from_user # ev.owner
    /\ \/ \E i \in Downloads(log) : ~log[i].ok
       \/ Downloads(log) # {} /\ Forwards(log, ev.reply.media \o "_reply") = {}
       \/ \E j \in Forwards(log, ev.reply.media \o "_reply") : ~log[j].ok
       \/ SaveRaised(log)

\* C13: however the recovery fails, for an owner with an active
\* subscription the replying message is stored under its own id and the
\* messages counter is incremented.
C13_RestOfMessageStored ==
    (RecoveryFailed /\ subscriptions[1] = "active") =>
        /\ \E r \in RowsAt(msgs, 1, 3, ev.mid) : r.text = Hello /\ r.user_id = ev.sender
        /\ stats[1].total_messages = 1

---------------------------------------------------------------------------
(* One deletion event on a stored chat, as in SpecDel, where building the  *)
(* archive can also raise.                                                 *)

DeleteClear ==
    /\ ev.type = "none"
    /\ \E ids \in Batches(MaxMsgId) \ {<<>>}, pickFirst \in Owners, pick \in Owners,
          failIds \in {{}, {1}}, docFail \in ArchiveOutcomes :
          DeletedMessages(3, ids, pickFirst, pick, failIds, FALSE, docFail)
    /\ UNCHANGED <<hist, e2e>>

NextClear == DeleteClear

SpecClear == InitDel /\ [][NextClear]_vars

Archived(l) == {i \in 1..Len(l) : l[i].op = "archive"}

Removals(l) == {i \in 1..Len(l) : l[i].op = "delete"}

ChatRows(m, owner_id) == {r \in m : r.owner_id = owner_id /\ r.chat_id = 3}

\* C14: in a chat clear that the handler carries through, the archive is
\* built once, before any row is deleted, from every row the store held for
\* the owner's chat when the event arrived, the rows of the batch included.
C14_ArchiveBeforeDelete ==
    [][(ev.type = "none" /\ ev'.type = "deleted" /\ ev'.outcome = "done" /\ ev'.clear) =>
          /\ Cardinality(Archived(log')) = 1
          /\ \A i \in Archived(log') :
                /\ log'[i].rows = {r.message_id : r \in ChatRows(msgs, ev'.owner)}
                /\ \A j \in Removals(log') : i < j
                /\ \A j \in Removals(log') : log'[j].owner = ev'.owner => log'[j].id \in log'[i].rows]_vars

\* A chat clear of two stored rows: both were read for the archive and both
\* are gone afterwards.
C14_Witness ==
    /\ ev.type = "deleted" /\ ev.outcome = "done" /\ ev.clear /\ ev.owner = 1
    /\ \E i \in Archived(log) : log[i].rows = {1, 2} /\ i < Len(log)
    /\ Cardinality({j \in Removals(log) : log[j].owner = 1}) = 2
    /\ ChatRows(msgs, 1) = {}

\* Building or sending the archive failed.
ArchiveFailed(l) ==
    \/ \E i \in 1..Len(l) : l[i].op = "archive_raised"
    \/ \E i \in 1..Len(l) : l[i].op = "send" /\ l[i].kind = "archive" /\ ~l[i].ok
    \/ Archived(l) # {} /\ ~\E i \in 1..Len(l) : l[i].op = "send" /\ l[i].kind = "archive"

\* C15: when the archive of a chat clear fails, the loop still runs for each
\* id of the batch: each id that has a row is fetched, and a fetched row
\* that its owner wrote is removed.
C15_LoopRunsAfterArchiveFailure ==
    [][(ev.type = "none" /\ ev'.type = "deleted" /\ ev'.clear /\ ArchiveFailed(log')) =>
          \A k \in 1..Len(ev'.ids) :
              (\E r \in msgs : r.chat_id = 3 /\ r.message_id = ev'.ids[k]) =>
                  \E i \in 1..Len(log') :
                      /\ log'[i].op = "fetch" /\ log'[i].id = ev'.ids[k]
                      /\ (log'[i].row.user_id = log'[i].row.owner_id) => log'[i].row \notin msgs']_vars

\* C16: the total of the percentage test is the number of rows stored for
\* (owner, chat) when the event arrives, the batch's own stored rows counted.
C16_TotalCountsBatch ==
    [][(ev.type = "none" /\ ev'.type = "deleted" /\ ev'.outcome # "no_row") =>
          /\ ev'.total = Cardinality(ChatRows(msgs, ev'.owner))
          /\ ev'.total >= Cardinality({r \in ChatRows(msgs, ev'.owner) :
                                          \E k \in 1..Len(ev'.ids) : r.message_id = ev'.ids[k]})
          /\ ev'.total >= 1
          /\ ev'.clear = is_chat_clear(ev'.n, Cardinality(ChatRows(msgs, ev'.owner)), ev'.recent)]_vars

\* One of two stored rows was deleted: the total was 2, one row is left, and
\* 50 percent is what made the event a chat clear.
C16_Witness ==
    /\ ev.type = "deleted" /\ ev.outcome = "done" /\ ev.n = 1 /\ ev.total = 2 /\ ev.recent = 1 /\ ev.clear
    /\ Cardinality(ChatRows(msgs, ev.owner)) = 1

\* The window of chat 3 in the ledger recent_deletions.
Window == recent_deletions[3]

\* C17: when a deletion event of the chat is processed, the entries of the
\* chat's window recorded 10 seconds or more before are removed, the entries
\* younger than that are kept, the current batch's (time, N) is appended
\* last, and recent_total is the sum over the window that results; so an
\* entry older than 10 seconds never counts and N always does.
C17_StaleEntriesPruned ==
    [][(ev'.type = "deleted" /\ ev'.outcome = "done" /\ msgs' # msgs) =>
          LET w == Window'
              kept == SubSeq(w, 1, Len(w) - 1)
          IN  /\ w # <<>> /\ w[Len(w)] = <<now, ev'.n>>
              /\ \A i \in 1..Len(w) : now - w[i][1] < 10
              /\ kept = SelectSeq(Window, LAMBDA e : now - e[1] <= 9)
              /\ ev'.recent = SumCounts(w)
              /\ ev'.recent >= ev'.n
              /\ ev'.recent <= ev'.n + SumCounts(Window)]_vars

\* A single deletion at time 15 of a chat that lost two rows before: the
\* earlier entries are gone and only the current batch is in the window.
C17_Witness ==
    /\ now = 15 /\ ev.type = "deleted" /\ ev.outcome = "done" /\ ev.n = 1 /\ ev.recent = 1
    /\ ev.total = BigChat - 2 /\ ~ev.clear
    /\ Window = <<<<15, 1>>>>

\* The archive documents the handler of ev sent to owner o.
ArchiveSends(o) ==
    {i \in 1..Len(log) : log[i].op = "send" /\ log[i].owner = o /\ log[i].kind = "archive"}

\* The deletion notifications of a row the counterpart wrote are all stubs
\* that carry nothing of the row.
OnlyStubs(r) ==
    /\ SendsAbout(r.owner_id, r.message_id) # {}
    /\ \A j \in SendsAbout(r.owner_id, r.message_id) :
          log[j].kind = "stub" /\ log[j].parts.shown = <<>> /\ log[j].parts.links = "None"

---------------------------------------------------------------------------
(* The archive functions on their own: create_chat_html_backup (with and   *)
(* without limit) and export_chat_via_api called for owner 1 and chat 3 on *)
(* tables whose rows carry their created_at. hist holds the last call.     *)

MaxRows == 3

MaxLimit == 4

\* A row of chat 3 observed at time t.
Stamped(owner_id, message_id, t) ==
    Row(owner_id, 3, message_id, 3, Hi, "None", NoPath, NoneStr, "None") @@ [created_at |-> t]

\* Up to MaxRows rows of owner 1, observed in the order of their ids, some
\* perhaps at the same time, and possibly a row of owner 2 in the chat of the
\* same id.
ArchiveTables ==
    {{Stamped(1, i, f[i]) : i \in {j \in 1..MaxRows : f[j] # 0}} \cup other :
        f \in {g \in [1..MaxRows -> 0..MaxRows] :
                  \A i, j \in 1..MaxRows : (i < j /\ g[i] # 0 /\ g[j] # 0) => g[i] <= g[j]},
        other \in {{}, {Stamped(2, 1, 1)}}}

Reverse(q) == [i \in 1..Len(q) |-> q[Len(q) + 1 - i]]

\* ORDER BY created_at ASC (DESC if desc): the orders the database may
\* return the rows of set S in; rows of equal created_at come in any order.
Orderings(S, desc) ==
    {q \in [1..Cardinality(S) -> S] :
        /\ \A i, j \in 1..Cardinality(S) : i # j => q[i] # q[j]
        /\ \A i, j \in 1..Cardinality(S) :
              i < j => IF desc THEN q[i].created_at >= q[j].created_at
                               ELSE q[i].created_at <= q[j].created_at}

\* limit: None is <<>>, an int L is <<L>>.
NoLimit == <<>>

\* if limit: (bot.py:1086)
HasLimit(limit) == limit # NoLimit /\ limit[1] # 0

\* bot.py:1085-1110: with a limit, the first `limit` rows of the descending
\* order, reversed; else all rows in ascending order. answer is what the
\* database returns for the ORDER BY of the query that runs.
backup_messages(limit, answer) ==
    IF HasLimit(limit)
    THEN Reverse(SubSeq(answer, 1, IF limit[1] < Len(answer) THEN limit[1] ELSE Len(answer)))
    ELSE answer

\* saved_media/chat_backup_{chat_id}_..., saved_media/chat_export_{owner_id}_...
ArtifactPath(fn, chat_id) == <<chat_id, 0, fn>>

\* A backup that writes its file whether or not there are rows.
BackupFileAlways(messages, chat_id, writeFail) ==
    IF writeFail THEN NoPath ELSE ArtifactPath("chat_backup", chat_id)

\* bot.py:1114-1116 and 1385-1393: None without rows, else the file written
\* (None if writing raises).
BackupFile(messages, chat_id, writeFail) ==
    IF messages = <<>> THEN NoPath
    ELSE IF writeFail THEN NoPath
    ELSE ArtifactPath("chat_backup", chat_id)

\* bot.py:903-938 and 1068-1077: None when the count is 0 or nothing was
\* fetched, else the file written.
ExportFile(message_count, messages, chat_id) ==
    IF message_count = 0 THEN NoPath
    ELSE IF messages = <<>> THEN NoPath
    ELSE ArtifactPath("chat_export", chat_id)

InitArchive ==
    /\ InitTables
    /\ msgs \in ArchiveTables
    /\ files = {}
    /\ subscriptions = [o \in Owners |-> "active"]

ArchiveCall(fn, limit, messages, result) ==
    /\ files' = IF result = NoPath THEN files ELSE files \cup {result}
    /\ hist' = <<[fn |-> fn, owner_id |-> 1, chat_id |-> 3, limit |-> limit,
                  messages |-> messages, result |-> result]>>
    /\ UNCHANGED <<msgs, stats, subscriptions, users, subscription_rows, referrals, failed_logins, banned_users, tasks, recent_deletions, now, ev, log, e2e>>

BackupCall ==
    /\ hist = <<>>
    /\ \E limit \in {NoLimit} \cup {<<l>> : l \in 0..MaxLimit}, writeFail \in BOOLEAN :
          \E answer \in Orderings(ChatRows(msgs, 1), HasLimit(limit)) :
              LET messages == backup_messages(limit, answer)
              IN  ArchiveCall("backup", limit, messages, BackupFile(messages, 3, writeFail))

ExportCall ==
    /\ hist = <<>>
    /\ \E desc \in Orderings(ChatRows(msgs, 1), TRUE) :
        LET messages == Reverse(desc)
        IN  ArchiveCall("export", NoLimit, messages, ExportFile(count_for_chat(msgs, 1, 3), messages, 3))

NextArchive == BackupCall \/ ExportCall

SpecArchive == InitArchive /\ [][NextArchive]_vars

\* C18: an archive call on a chat without stored rows returns None and no
\* artifact file is written; a file is returned or written only when the
\* chat has a row. For create_chat_html_backup and export_chat_via_api.
C18_NoEmptyArtifact ==
    hist # <<>> =>
        /\ ChatRows(msgs, 1) = {} => (hist[1].result = NoPath /\ files = {})
        /\ hist[1].result # NoPath => (ChatRows(msgs, 1) # {} /\ hist[1].messages # <<>>)
        /\ files # {} => ChatRows(msgs, 1) # {}

\* An archive was asked of a chat in which only another owner has a row.
C18_Witness ==
    /\ hist # <<>> /\ hist[1].fn = "backup" /\ hist[1].limit = NoLimit
    /\ msgs # {} /\ ChatRows(msgs, 1) = {}
    /\ hist[1].result = NoPath /\ files = {}

Smaller(a, b) == IF a < b THEN a ELSE b

\* C19: create_chat_html_backup serializes the rows of (owner, chat) in
\* ascending created_at; all of them without a limit, and with limit L >= 0
\* exactly the min(L, count) most recent ones.
C19_LimitedBackup ==
    (hist # <<>> /\ hist[1].fn = "backup") =>
        LET q == hist[1].messages
            all == ChatRows(msgs, 1)
            got == {q[i] : i \in 1..Len(q)}
        IN  /\ got \subseteq all /\ Cardinality(got) = Len(q)
            /\ \A i, j \in 1..Len(q) : i < j => q[i].created_at <= q[j].created_at
            /\ hist[1].limit = NoLimit => got = all
            /\ hist[1].limit # NoLimit =>
                  /\ Len(q) = Smaller(hist[1].limit[1], Cardinality(all))
                  /\ \A r \in got, x \in all \ got : x.created_at <= r.created_at

---------------------------------------------------------------------------
\* The download of the message's own media raised.
OwnDownloadRaised ==
    /\ ev.type = "message" /\ ev.outcome = "done"
    /\ \E i \in 1..Len(log) : log[i].op = "download" /\ log[i].id = ev.mid /\ ~log[i].ok

\* C21: when the download of a message's own media raises, the message is
\* stored with its text and caption and with the attempted media kind, and
\* its stored file_path is null.
C21_FailedDownloadLeavesNoPath ==
    OwnDownloadRaised =>
        /\ RowsAt(msgs, ev.owner, ev.chat, ev.mid) # {}
        /\ \A r \in RowsAt(msgs, ev.owner, ev.chat, ev.mid) :
              /\ r.text = OrStr(ev.text, <<>>) /\ r.caption = ev.caption
              /\ r.media_type = "photo"
              /\ r.file_path = NoPath

---------------------------------------------------------------------------
(* Dispatch, bot.py:3811: dp.start_polling(bot) is called without            *)
(* handle_as_tasks=False, so the dispatcher starts the handler of each       *)
(* update as a task of its own and the handlers interleave at their awaits.  *)
(* One edit and one deletion of the key (owner 1, chat 3, message 1).        *)

NewTask(kind, text, caption) ==
    [kind |-> kind, pc |-> "start", owner |-> NoneId, old |-> NoneStr, row |-> <<>>, clear |-> FALSE,
     text |-> text, caption |-> caption]

InitRace ==
    /\ InitTables
    /\ files = {}
    /\ \E s \in {"active", "none"} : subscriptions = [o \in Owners |-> IF o = 1 THEN s ELSE "none"]
    /\ \E t \in {Hi, Hello} : msgs = {Row(1, 3, 1, 3, t, "None", NoPath, NoneStr, "None")}
    /\ ev = NoEvent /\ log = <<>> /\ hist = <<>> /\ e2e = 0

\* The update edited_business_message reaches the dispatcher first.
DeliverEdit ==
    /\ tasks = <<>>
    /\ \E b \in {x \in Bodies : x.text # NoneStr \/ x.caption # NoneStr} :
          tasks' = <<NewTask("edit", b.text, b.caption)>>
    /\ UNCHANGED <<msgs, stats, subscriptions, users, subscription_rows, referrals, failed_logins, banned_users, files, recent_deletions,
                   now, ev, log, hist, e2e>>

\* The update deleted_business_messages reaches the dispatcher after it.
DeliverDelete ==
    /\ Len(tasks) = 1
    /\ tasks' = Append(tasks, NewTask("deleted", NoneStr, NoneStr))
    /\ UNCHANGED <<msgs, stats, subscriptions, users, subscription_rows, referrals, failed_logins, banned_users, files, recent_deletions,
                   now, ev, log, hist, e2e>>

Effect(i, op) == [op |-> op, owner |-> 1, id |-> 1, task |-> i]

\* handle_edited_business_message of bot.py:3522-3584 from one await to the
\* next: owner lookup, get_message_full, save_message, increment_stat,
\* check_subscription and the notification.
EditStep ==
    \E i \in 1..Len(tasks) :
        LET t == tasks[i]
            new == OrStr(t.text, OrStr(t.caption, <<>>))
        IN  /\ t.kind = "edit" /\ t.pc # "done"
            /\ \/ /\ t.pc = "start"
                  /\ tasks' = [tasks EXCEPT ![i] =
                                  IF is_user_authenticated(users, get_user_by_connection("c1"))
                                  THEN [t EXCEPT !.pc = "owner", !.owner = get_user_by_connection("c1")]
                                  ELSE [t EXCEPT !.pc = "done"]]
                  /\ UNCHANGED <<msgs, stats, subscriptions, log>>
               \/ /\ t.pc = "owner"
                  /\ LET old_data == get_message_full(msgs, t.owner, 3, 1)
                     IN  tasks' = [tasks EXCEPT ![i] =
                                      [t EXCEPT !.pc = "read",
                                                !.old = IF old_data # <<>> THEN old_data[1].text ELSE NoneStr]]
                  /\ log' = Append(log, Effect(i, "read"))
                  /\ UNCHANGED <<msgs, stats, subscriptions>>
               \/ /\ t.pc = "read"
                  /\ msgs' = save_message(msgs, t.owner, 3, 1, 3, new, "None", NoPath, t.caption, "None")
                  /\ tasks' = [tasks EXCEPT ![i].pc = "saved"]
                  /\ log' = Append(log, Effect(i, "save"))
                  /\ UNCHANGED <<stats, subscriptions>>
               \/ /\ t.pc = "saved"
                  /\ stats' = increment_stat(stats, t.owner, "total_edits")
                  /\ tasks' = [tasks EXCEPT ![i].pc = "counted"]
                  /\ log' = Append(log, Effect(i, "incr"))
                  /\ UNCHANGED <<msgs, subscriptions>>
               \/ /\ t.pc = "counted"
                  /\ subscriptions' = check_subscription_table(subscriptions, t.owner)
                  /\ tasks' = [tasks EXCEPT ![i].pc = "done"]
                  /\ log' = Append(log, Effect(i, "send"))
                  /\ UNCHANGED <<msgs, stats>>
            /\ UNCHANGED <<users, subscription_rows, referrals, failed_logins, banned_users, files, recent_deletions, now, ev, hist, e2e>>

\* handle_deleted_business_messages of bot.py:3586-3799 for the ids [1] from
\* one await to the next: the owner query, the count and the ledger, the
\* archive, the fetch of the row, increment_stat, the notification, the
\* removal.
DeleteStep ==
    \E i \in 1..Len(tasks) :
        LET t == tasks[i]
        IN  /\ t.kind = "deleted" /\ t.pc # "done"
            /\ \/ /\ t.pc = "start"
                  /\ LET owners == FirstRowOwners(msgs, 3, <<1>>)
                     IN  tasks' = [tasks EXCEPT ![i] =
                                      IF owners = {} THEN [t EXCEPT !.pc = "done"]
                                      ELSE [t EXCEPT !.pc = "owner", !.owner = PickOwner(owners, 1)]]
                  /\ log' = Append(log, Effect(i, "read"))
                  /\ UNCHANGED <<msgs, stats, subscriptions, recent_deletions>>
               \/ /\ t.pc = "owner"
                  /\ LET w == TrackDeletion(recent_deletions[3], now, 1)
                     IN  /\ recent_deletions' = [recent_deletions EXCEPT ![3] = w]
                         /\ tasks' = [tasks EXCEPT ![i] =
                                         [t EXCEPT !.pc = "classified",
                                                   !.clear = is_chat_clear(1, count_for_chat(msgs, t.owner, 3),
                                                                           SumCounts(w))]]
                  /\ log' = Append(log, Effect(i, "read"))
                  /\ UNCHANGED <<msgs, stats, subscriptions>>
               \/ /\ t.pc = "classified"
                  /\ tasks' = [tasks EXCEPT ![i].pc = "archived"]
                  /\ log' = IF t.clear /\ create_chat_html_backup(msgs, t.owner, 3) # {}
                            THEN log \o <<Effect(i, "archive"), Effect(i, "send")>>
                            ELSE IF t.clear THEN Append(log, Effect(i, "archive")) ELSE log
                  /\ UNCHANGED <<msgs, stats, subscriptions, recent_deletions>>
               \/ /\ t.pc = "archived"
                  /\ LET got == FetchAny(msgs, 3, 1, 1)
                     IN  tasks' = [tasks EXCEPT ![i] =
                                      IF got = <<>> THEN [t EXCEPT !.pc = "done"]
                                      ELSE [t EXCEPT !.pc = "fetched", !.row = got]]
                  /\ log' = Append(log, Effect(i, "read"))
                  /\ UNCHANGED <<msgs, stats, subscriptions, recent_deletions>>
               \/ /\ t.pc = "fetched"
                  /\ stats' = increment_stat(stats, t.row[1].owner_id, "total_deletes")
                  /\ tasks' = [tasks EXCEPT ![i].pc = "counted"]
                  /\ log' = Append(log, Effect(i, "incr"))
                  /\ UNCHANGED <<msgs, subscriptions, recent_deletions>>
               \/ /\ t.pc = "counted"
                  /\ subscriptions' = check_subscription_table(subscriptions, t.row[1].owner_id)
                  /\ tasks' = [tasks EXCEPT ![i].pc = "notified"]
                  /\ log' = Append(log, Effect(i, "send"))
                  /\ UNCHANGED <<msgs, stats, recent_deletions>>
               \/ /\ t.pc = "notified"
                  /\ msgs' = delete_message_from_db(msgs, t.row[1].owner_id, 3, 1)
                  /\ tasks' = [tasks EXCEPT ![i].pc = "done"]
                  /\ log' = Append(log, Effect(i, "delete"))
                  /\ UNCHANGED <<stats, subscriptions, recent_deletions>>
            /\ UNCHANGED <<users, subscription_rows, referrals, failed_logins, banned_users, files, now, ev, hist, e2e>>

NextRace == DeliverEdit \/ DeliverDelete \/ EditStep \/ DeleteStep

SpecRace == InitRace /\ [][NextRace]_vars

BothReturned == Len(tasks) = 2 /\ \A i \in 1..2 : tasks[i].pc = "done"

\* C22: events are handled strictly one at a time, so an edit delivered before
\* a deletion of the same key leaves no row in the store once both handlers
\* have returned.
C22_EditThenDeleteLeavesNoRow ==
    BothReturned => RowsAt(msgs, 1, 3, 1) = {}

\* C22, the first half: the handler of the later event touches the store only
\* after the handler of the earlier one has returned.
HandlersDoNotOverlap ==
    \A i \in 1..Len(log) : log[i].task = 2 => \A j \in i..Len(log) : log[j].task = 2

---------------------------------------------------------------------------
(* The counter total_deletes, bot.py:3697-3718 *)

\* The rows whose key leaves the store in this step.
Gone == {r \in msgs : RowsAt(msgs', r.owner_id, r.chat_id, r.message_id) = {}}

\* C23: per owner, total_deletes grows in every step by the number of stored
\* rows authored by somebody else that the deletion handler processed (and
\* removed): ids that are not stored and rows authored by the owner leave it
\* alone, and a row counts once whether or not its notification is delivered.
C23_DeletesCounted ==
    [][\A o \in Owners :
          stats'[o].total_deletes =
              stats[o].total_deletes + Cardinality({r \in Gone : r.owner_id = o /\ r.user_id # o})]_vars

\* A batch of two ids, one counted although its notification raised.
C23_Witness ==
    /\ ev.type = "deleted" /\ Len(ev.ids) = 2
    /\ stats[1].total_deletes = 1
    /\ \E i \in 1..Len(log) : log[i].op = "send" /\ log[i].kind # "archive" /\ ~log[i].ok

\* C24: every deleted-messages event for a chat updates the chat's entry of
\* recent_deletions (prune, then append (now, N)), also when none of its ids
\* is stored.
C24_EveryEventTracked ==
    ev.type = "deleted" =>
        /\ recent_deletions[ev.chat] # <<>>
        /\ recent_deletions[ev.chat][Len(recent_deletions[ev.chat])] = <<now, Len(ev.ids)>>

\* An event none of whose ids is stored sends nothing and changes neither a
\* counter nor the store.
UnknownIdsSkipped ==
    [][ev'.type = "deleted" /\ ev'.outcome = "no_row" =>
          /\ log' = <<>>
          /\ UNCHANGED <<msgs, stats, subscriptions, files>>]_vars

---------------------------------------------------------------------------
(* The per-id loop, bot.py:3697-3799 *)

\* The positions of the log at which row r is removed.
RemovalsOf(r) ==
    {i \in 1..Len(log) : log[i].op = "delete" /\ log[i].owner = r.owner_id /\ log[i].id = r.message_id}

\* C26: under an active subscription every stored row of the batch that the
\* counterpart wrote leads to at least one delivery attempt about it to the
\* owner before the row is removed, whatever the row holds.
C26_AttemptBeforeRemoval ==
    ev.type = "deleted" =>
        \A i \in Fetched :
            LET r == log[i].row
            IN  (~OwnRow(r) /\ subscriptions[r.owner_id] = "active") =>
                    \A d \in RemovalsOf(r) :
                        \E s \in SendsAbout(r.owner_id, r.message_id) : s < d

\* What the full notification can show of a row: a text or caption that is
\* not blank, links, or a media file on disk.
HasContent(r) ==
    \/ HasParts(CaptionParts(r))
    \/ (r.file_path # NoPath /\ r.file_path \in files)

\* C25: the ids of one batch are processed independently: after an id that
\* is not stored, or whose notification raised, every later id of the batch
\* that is stored is still fetched and removed, with a notification about it
\* when the counterpart wrote it and with none when the owner did.
C25_LaterIdsProcessed ==
    [][(ev'.type = "deleted" /\ ev'.outcome = "done") =>
          LET ids == ev'.ids
              fetchOf(id) == {i \in 1..Len(log') : log'[i].op = "fetch" /\ log'[i].id = id}
              sendsOf(o, id) == {i \in 1..Len(log') : log'[i].op = "send" /\ log'[i].owner = o /\ log'[i].id = id}
              missing(id) == {r \in msgs : r.chat_id = ev'.chat /\ r.message_id = id} = {}
              raised(id) == \E i \in fetchOf(id) :
                                /\ sendsOf(log'[i].row.owner_id, id) # {}
                                /\ \A s \in sendsOf(log'[i].row.owner_id, id) : ~log'[s].ok
          IN  \A k \in 1..Len(ids) :
                  ((\E j \in 1..(k - 1) : missing(ids[j]) \/ raised(ids[j])) /\ ~missing(ids[k])) =>
                      \E i \in fetchOf(ids[k]) :
                          LET r == log'[i].row
                          IN  /\ RowsAt(msgs', r.owner_id, r.chat_id, r.message_id) = {}
                              /\ OwnRow(r) <=> sendsOf(r.owner_id, r.message_id) = {}]_vars

---------------------------------------------------------------------------
(* Order of the recovery steps, bot.py:3389-3419 *)

\* The download of the replied-to media succeeded and left its file.
RecoveryDownloaded ==
    /\ ev.type = "message" /\ ev.reply.message_id # 0 /\ ev.reply.from_user # ev.owner
    /\ \E i \in Downloads(log) : log[i].ok
    /\ MediaPath(3, 1, ev.reply.media \o "_reply") \in files
    /\ ~SaveRaised(log)

\* C27: in the recovery the steps run in the order download, persist,
\* forward: once the download has succeeded the *_reply row is in the store
\* under the replied-to id, written before the forward, also when the forward
\* to the owner raises.
C27_PersistBeforeForward ==
    RecoveryDownloaded =>
        LET k == ev.reply.media \o "_reply"
        IN  /\ \E r \in RowsAt(msgs, 1, 3, 1) : r.media_type = k
            /\ \A j \in Forwards(log, k) :
                  \E s \in 1..Len(log) : log[s].op = "save" /\ log[s].id = 1 /\ s < j

---------------------------------------------------------------------------
(* What an edit leaves of the row, bot.py:3538-3544 and 686-698 *)

\* C28: after an edit by the counterpart the row holds the new text (the new
\* caption when there is no text) and the new caption, and its media kind,
\* file_path and links are empty whatever it held before; the deletion of
\* that message that follows sends no media.
C28_EditReplacesRow ==
    [][/\ (e2e \in {1, 2} /\ e2e' = e2e + 1) =>
              /\ Cardinality(RowsAt(msgs', 1, 3, 1)) = 1
              /\ \A r \in RowsAt(msgs', 1, 3, 1) :
                    /\ r.text = OrStr(ev'.text, OrStr(ev'.caption, <<>>))
                    /\ r.caption = ev'.caption
                    /\ r.media_type = "None" /\ r.file_path = NoPath /\ r.links = "None"
       /\ (e2e \in {2, 3} /\ e2e' = 4) =>
              \A i \in SendPositions(log') : log'[i].kind \in {"text", "stub"}]_vars

\* A photo was stored and its file is on disk, the message was edited, and
\* its deletion was notified as text.
C28_Witness ==
    /\ e2e = 4 /\ Len(hist) >= 2 /\ ev.type = "deleted" /\ ev.outcome = "done"
    /\ MediaPath(3, 1, "photo") \in files
    /\ \E i \in SendPositions(log) : log[i].kind = "text" /\ log[i].ok

---------------------------------------------------------------------------
(* bot_multiuser.py: password gate, tables users, failed_logins, banned_users *)

\* BOT_PASSWORD, by default "12391"
BOT_PASSWORD == <<49, 50, 51, 57, 49>>

ADMIN_ID == 0

MaxAttempts == 5

\* The accounts that write to the bot.
Accounts == {1, 2}

\* SELECT is_banned FROM users WHERE user_id = $1; result is True
is_user_banned(u, user_id) == user_id \in DOMAIN u /\ u[user_id].is_banned

\* INSERT INTO users (..., is_authenticated) VALUES (..., TRUE) ON CONFLICT
\* (user_id) DO UPDATE SET is_authenticated = TRUE; a new row is not banned.
authenticate_user(u, user_id) ==
    [x \in DOMAIN u \cup {user_id} |->
        IF x # user_id THEN u[x]
        ELSE IF x \in DOMAIN u THEN [u[x] EXCEPT !.is_authenticated = TRUE]
        ELSE [is_authenticated |-> TRUE, is_banned |-> FALSE]]

\* The attempts_count of the user's latest row of failed_logins, 0 if none.
LastAttempts(fl, user_id) ==
    LET mine == SelectSeq(fl, LAMBDA r : r.user_id = user_id)
    IN  IF mine = <<>> THEN 0 ELSE mine[Len(mine)].attempts_count

\* record_failed_login: insert a row with the latest count plus one.
record_failed_login(fl, user_id) ==
    Append(fl, [user_id |-> user_id, attempts_count |-> LastAttempts(fl, user_id) + 1])

\* ban_user, the table users: UPDATE users SET is_banned = TRUE WHERE user_id = $1
ban_user(u, user_id) ==
    IF user_id \in DOMAIN u THEN [u EXCEPT ![user_id].is_banned = TRUE] ELSE u

Answer(user_id, kind) == [op |-> "answer", owner |-> user_id, id |-> 0, kind |-> kind]

\* The tables the password gate works on.
AuthDb == [users |-> users, failed_logins |-> failed_logins, banned_users |-> banned_users,
           log |-> <<>>, ev |-> NoEvent]

\* dp.message(F.text): handle_password, bot_multiuser.py:316-396
handle_password(db, user_id, text) ==
    LET e0 == [NoEvent EXCEPT !.type = "password", !.sender = user_id, !.text = text]
    IN  IF is_user_banned(db.users, user_id)
        THEN [db EXCEPT !.log = <<Answer(user_id, "denied")>>, !.ev = [e0 EXCEPT !.outcome = "denied"]]
        ELSE IF is_user_authenticated(db.users, user_id)
        THEN [db EXCEPT !.ev = [e0 EXCEPT !.outcome = "ignored"]]
        ELSE IF text = BOT_PASSWORD
        THEN [db EXCEPT !.users = authenticate_user(@, user_id),
                        !.log = <<Answer(user_id, "authenticated")>>,
                        !.ev = [e0 EXCEPT !.outcome = "authenticated"]]
        ELSE LET fl == record_failed_login(db.failed_logins, user_id)
                 attempts == LastAttempts(fl, user_id)
             IN  IF attempts >= 3
                 THEN [db EXCEPT !.failed_logins = fl,
                                 !.banned_users = @ \cup {user_id},
                                 !.users = ban_user(@, user_id),
                                 !.log = <<Answer(user_id, "blocked")>> \o
                                         (IF ADMIN_ID # 0 THEN <<Answer(ADMIN_ID, "ban_report")>> ELSE <<>>),
                                 !.ev = [e0 EXCEPT !.outcome = "blocked", !.n = attempts]]
                 ELSE [db EXCEPT !.failed_logins = fl,
                                 !.log = <<Answer(user_id, "wrong")>>,
                                 !.ev = [e0 EXCEPT !.outcome = "wrong", !.n = attempts]]

\* Account 2 has authenticated before, account 1 never has.
InitAuth ==
    /\ stats = [o \in Owners |-> ZeroStats]
    /\ recent_deletions = [c \in Chats |-> <<>>]
    /\ now = 0
    /\ tasks = <<>>
    /\ users \in {[x \in {} |-> 0], [x \in {2} |-> [is_authenticated |-> TRUE, is_banned |-> FALSE]]}
    /\ failed_logins = <<>>
    /\ banned_users = {}
    /\ subscription_rows = [o \in Owners |-> <<>>]
    /\ referrals = {}
    /\ msgs = {} /\ files = {}
    /\ subscriptions = [o \in Owners |-> "none"]
    /\ ev = NoEvent /\ log = <<>> /\ hist = <<>> /\ e2e = 0

\* An account sends a text that is not /start.
PasswordMessage ==
    /\ e2e < MaxAttempts
    /\ \E user_id \in Accounts, text \in {BOT_PASSWORD, Hi} :
          LET r == handle_password(AuthDb, user_id, text)
          IN  /\ users' = r.users
              /\ failed_logins' = r.failed_logins
              /\ banned_users' = r.banned_users
              /\ ev' = r.ev
              /\ log' = r.log
    /\ e2e' = e2e + 1
    /\ UNCHANGED <<msgs, stats, subscriptions, subscription_rows, referrals, tasks, files, recent_deletions,
                   now, hist>>

NextAuth == PasswordMessage

SpecAuth == InitAuth /\ [][NextAuth]_vars

\* The number of wrong passwords the account has sent.
WrongPasswords(user_id) == Len(SelectSeq(failed_logins, LAMBDA r : r.user_id = user_id))

\* C29: an account that has sent a wrong password three times is banned:
\* is_user_banned is true for it and it is not authenticated, also when it
\* had never authenticated before.
C29_ThreeStrikesBanned ==
    \A user_id \in Accounts :
        WrongPasswords(user_id) >= 3 =>
            /\ is_user_banned(users, user_id)
            /\ ~is_user_authenticated(users, user_id)

---------------------------------------------------------------------------
(* bot_multiuser.py: the business handlers, 481-702 *)

\* bot_multiuser.py:497-528 (photo) and 530-561 (video): the reply trick of
\* this bot: download, save_message, then the forward in a try of its own.
\* rdl as in Recover; with "nofile" the forward of the missing file raises.
MultiuserRecover(db, owner_id, chat_id, reply, kind, rdl, fwdFail) ==
    IF reply.message_id = 0 \/ reply.media # kind THEN db
    ELSE LET path == MediaPath(chat_id, reply.message_id, kind \o "_reply")
             dl == [op |-> "download", owner |-> owner_id, id |-> reply.message_id, ok |-> rdl # "raise"]
             fs == IF rdl \in {"ok", "saveraise"} THEN db.files \cup {path} ELSE db.files
             d1 == [db EXCEPT !.files = fs, !.log = Append(@, dl)]
             fwd == Send(owner_id, reply.message_id, kind \o "_reply", [shown |-> <<>>, links |-> "None"],
                         ~fwdFail /\ path \in fs)
         IN  IF rdl = "raise" THEN d1
             ELSE IF rdl = "saveraise"
             THEN [d1 EXCEPT !.log = Append(@, [op |-> "save_raised", owner |-> owner_id,
                                                id |-> reply.message_id])]
             ELSE [d1 EXCEPT !.msgs = save_message(@, owner_id, chat_id, reply.message_id, reply.from_user,
                                                   <<>>, kind \o "_reply", path, reply.caption, "None"),
                             !.log = @ \o <<[op |-> "save", owner |-> owner_id, id |-> reply.message_id], fwd>>]

\* dp.business_message of bot_multiuser.py:481-653. The owner is the sender of
\* the message; file_path keeps the path of a recovery when the message has
\* no media of its own.
multiuser_handle_business_message(db, chat_id, message_id, from_user, text, caption, media, links, reply, dl, rdl, fwdFail) ==
    LET owner_id == from_user
        e0 == [NoEvent EXCEPT !.type = "message", !.chat = chat_id, !.mid = message_id,
                              !.sender = from_user, !.owner = owner_id, !.text = text, !.caption = caption,
                              !.new = OrStr(text, <<>>), !.reply = reply]
    IN  IF owner_id = NoneId THEN [db EXCEPT !.ev = [e0 EXCEPT !.outcome = "no_owner"]]
        ELSE IF ~is_user_authenticated(users, owner_id) THEN [db EXCEPT !.ev = [e0 EXCEPT !.outcome = "not_auth"]]
        ELSE LET d0 == [db EXCEPT !.ev = [e0 EXCEPT !.outcome = "done"]]
                 d1 == MultiuserRecover(d0, owner_id, chat_id, reply, "photo", rdl, fwdFail)
                 d2 == MultiuserRecover(d1, owner_id, chat_id, reply, "video", rdl, fwdFail)
                 kept == IF reply.message_id # 0 /\ reply.media \in {"photo", "video"}
                         THEN MediaPath(chat_id, reply.message_id, reply.media \o "_reply")
                         ELSE NoPath
                 file_path == IF media = "None" THEN kept ELSE MediaPath(chat_id, message_id, media)
                 fs == IF media # "None" /\ dl = "ok" THEN d2.files \cup {file_path} ELSE d2.files
             IN  [d2 EXCEPT !.files = fs,
                            !.msgs = save_message(@, owner_id, chat_id, message_id, from_user,
                                                  OrStr(text, <<>>), media, file_path, caption, links),
                            !.stats = increment_stat(@, owner_id, "total_messages"),
                            !.log = @ \o (IF media = "None" THEN <<>>
                                           ELSE <<[op |-> "download", owner |-> owner_id,
                                                   id |-> message_id, ok |-> dl = "ok"]>>)
                                     \o <<[op |-> "save", owner |-> owner_id, id |-> message_id]>>]

\* bot_multiuser.py:667-702, past the guards.
MultiuserEditBody(db, owner_id, chat_id, message_id, from_user, text, caption, sendFail) ==
    LET old_data == get_message_full(db.msgs, owner_id, chat_id, message_id)
        old == IF old_data # <<>> THEN old_data[1].text ELSE NoneStr
        new == OrStr(text, OrStr(caption, <<>>))
        note == [op |-> "send", owner |-> owner_id, id |-> message_id, kind |-> "edit_full",
                 old |-> IF old = NoneStr \/ strip(old) = <<>> THEN NotFoundMark ELSE old,
                 new |-> new, ok |-> ~sendFail]
    IN  [db EXCEPT !.msgs = save_message(@, owner_id, chat_id, message_id, from_user, new,
                                         "None", NoPath, caption, "None"),
                   !.stats = increment_stat(@, owner_id, "total_edits"),
                   !.log = @ \o <<[op |-> "save", owner |-> owner_id, id |-> message_id], note>>,
                   !.ev = [@ EXCEPT !.old = old, !.new = new, !.outcome = "done"]]

\* dp.edited_business_message of bot_multiuser.py:655-702. The owner is taken
\* from message.from_user, the sender of the edited message.
multiuser_handle_edited_business_message(db, chat_id, message_id, from_user, text, caption, sendFail) ==
    LET owner_id == from_user
        e0 == [NoEvent EXCEPT !.type = "edited", !.chat = chat_id, !.mid = message_id,
                              !.sender = from_user, !.owner = owner_id, !.text = text, !.caption = caption]
        d0 == [db EXCEPT !.ev = e0]
    IN  IF owner_id = NoneId \/ ~is_user_authenticated(users, owner_id)
        THEN [d0 EXCEPT !.ev = [@ EXCEPT !.outcome = "not_auth"]]
        ELSE IF from_user # NoneId /\ from_user = owner_id
        THEN [d0 EXCEPT !.ev = [@ EXCEPT !.outcome = "self_edit"]]
        ELSE MultiuserEditBody(d0, owner_id, chat_id, message_id, from_user, text, caption, sendFail)

MaxMulti == 3

\* Accounts 1 and 2 are authenticated owners; 3 is a counterpart who does
\* not use the bot. Chat 3 is the chat of owner 1 with that counterpart.
InitMulti ==
    /\ InitTables
    /\ msgs = {} /\ files = {}
    /\ subscriptions = [o \in Owners |-> "none"]
    /\ ev = NoEvent /\ log = <<>> /\ hist = <<>> /\ e2e = 0

\* A message in a business chat, from the owner, from another owner or from
\* the counterpart.
MultiMessage ==
    /\ e2e < MaxMulti
    /\ \E message_id \in StoreIds, from_user \in {1, 2, 3}, b \in Bodies, dl \in {"ok", "raise"},
          fwdFail \in BOOLEAN :
       \E rp \in {NoReply, [message_id |-> OtherId(message_id), from_user |-> 3, media |-> "photo",
                             caption |-> Cap]} :
          Apply(multiuser_handle_business_message(Db, 3, message_id, from_user, b.text, b.caption,
                                                  IF b.caption = NoneStr THEN "None" ELSE "photo", "None",
                                                  rp, dl, "ok", fwdFail))
    /\ e2e' = e2e + 1
    /\ UNCHANGED <<users, subscription_rows, referrals, failed_logins, banned_users, tasks, now, hist>>

\* An edit in a business chat; hist keeps the store as the handler found it.
MultiEdit ==
    /\ e2e < MaxMulti
    /\ \E message_id \in StoreIds, from_user \in {1, 2, 3}, b \in Bodies, sendFail \in BOOLEAN :
          Apply(multiuser_handle_edited_business_message(Db, 3, message_id, from_user, b.text, b.caption,
                                                         sendFail))
    /\ e2e' = e2e + 1
    /\ hist' = <<msgs, stats>>
    /\ UNCHANGED <<users, subscription_rows, referrals, failed_logins, banned_users, tasks, now>>

NextMulti == MultiMessage \/ MultiEdit

SpecMulti == InitMulti /\ [][NextMulti]_vars

\* C30: when a counterpart edits a message in an authenticated owner's chat
\* the handler updates the stored row, increments the owner's edits counter
\* and sends the owner a notification with the old and the new text.
C30_CounterpartEditHandled ==
    (ev.type = "edited" /\ ev.sender = 3) =>
        \E o \in Owners :
            /\ is_user_authenticated(users, o)
            /\ \E r \in RowsAt(msgs, o, ev.chat, ev.mid) : r.text = OrStr(ev.text, OrStr(ev.caption, <<>>))
            /\ stats[o].total_edits = hist[2][o].total_edits + 1
            /\ \E i \in 1..Len(log) : log[i].op = "send" /\ log[i].owner = o /\ log[i].kind = "edit_full"

\* No edit event ever changes the store, a counter or sends anything.
EditsDoNothing ==
    ev.type = "edited" => (log = <<>> /\ msgs = hist[1] /\ stats = hist[2])

---------------------------------------------------------------------------
(* Subscriptions with their dates, bot.py:98-198, and the handlers that      *)
(* write them: cmd_start (1411-1451) and process_successful_payment          *)
(* (2008-2035). In the specifications of this section now counts days.       *)

TrialDays == 7

BonusDays == 7

\* days_map of process_successful_payment; an unknown type gets 7 days.
DaysOf(sub_type) ==
    IF sub_type = "week" THEN 7
    ELSE IF sub_type = "month" THEN 30
    ELSE IF sub_type = "year" THEN 365
    ELSE 7

SubRow(sub_type, end_date, is_active) ==
    [subscription_type |-> sub_type, end_date |-> end_date, is_active |-> is_active]

\* create_trial_subscription: INSERT ... ON CONFLICT (user_id) DO NOTHING
create_trial_subscription(t, user_id, current) ==
    IF t[user_id] = <<>> THEN [t EXCEPT ![user_id] = <<SubRow("trial", current + TrialDays, TRUE)>>] ELSE t

\* check_subscription, the answer: a row that is_active and whose
\* (end_date - datetime.now()).days is not negative, that is end_date >= now.
check_subscription(t, user_id, current) ==
    t[user_id] # <<>> /\ t[user_id][1].is_active /\ t[user_id][1].end_date >= current

\* check_subscription, the table: an expired row is marked not active.
check_subscription_rows(t, user_id, current) ==
    IF t[user_id] # <<>> /\ t[user_id][1].is_active /\ t[user_id][1].end_date < current
    THEN [t EXCEPT ![user_id] = <<[@[1] EXCEPT !.is_active = FALSE]>>]
    ELSE t

\* grant_subscription
grant_subscription(t, user_id, sub_type, days, current) ==
    [t EXCEPT ![user_id] = <<SubRow(sub_type, current + days, TRUE)>>]

\* revoke_subscription
revoke_subscription(t, user_id) ==
    IF t[user_id] = <<>> THEN t ELSE [t EXCEPT ![user_id] = <<[@[1] EXCEPT !.is_active = FALSE]>>]

\* extend_subscription: from the stored end date if the row is_active, else
\* from now.
extend_subscription(t, user_id, sub_type, days, current) ==
    LET new_end_date == IF t[user_id] # <<>> /\ t[user_id][1].is_active
                        THEN t[user_id][1].end_date + days
                        ELSE current + days
    IN  [t EXCEPT ![user_id] = <<SubRow(sub_type, new_end_date, TRUE)>>]

\* check_referral_used: EXISTS(SELECT 1 FROM referrals WHERE referred_id = $1)
check_referral_used(rf, user_id) == \E r \in rf : r.referred_id = user_id

\* create_referral: INSERT ... ON CONFLICT (referred_id) DO NOTHING
create_referral(rf, referrer_id, referred_id) ==
    IF check_referral_used(rf, referred_id) THEN rf
    ELSE rf \cup {[referrer_id |-> referrer_id, referred_id |-> referred_id, used |-> FALSE]}

\* mark_referral_used
mark_referral_used(rf, referred_id) ==
    {IF r.referred_id = referred_id THEN [r EXCEPT !.used = TRUE] ELSE r : r \in rf}

\* The tables the handlers of this section work on.
PlanDb == [users |-> users, subscription_rows |-> subscription_rows, referrals |-> referrals,
           log |-> <<>>, ev |-> NoEvent]

Given(user_id, what) == [op |-> what, owner |-> user_id, id |-> 0]

\* A /start that gives the trial and the bonus to every caller.
cmd_start_always_new(db, user_id, referrer_id) ==
    LET e0 == [NoEvent EXCEPT !.type = "start", !.sender = user_id, !.owner = referrer_id, !.outcome = "new"]
        t1 == grant_subscription(db.subscription_rows, user_id, "trial", TrialDays, now)
    IN  [db EXCEPT !.users = authenticate_user(@, user_id),
                   !.subscription_rows = extend_subscription(t1, user_id, "referral_bonus", BonusDays, now),
                   !.referrals = mark_referral_used(create_referral(@, referrer_id, user_id), user_id),
                   !.log = <<Given(user_id, "trial"), Given(user_id, "bonus")>>,
                   !.ev = e0]

\* dp.message(Command("start")): cmd_start, bot.py:1411-1451 and the status
\* check at 1454. referrer_id is the code of the command, NoneId without one.
cmd_start(db, user_id, referrer_id) ==
    LET e0 == [NoEvent EXCEPT !.type = "start", !.sender = user_id, !.owner = referrer_id]
        is_new_user == ~is_user_authenticated(db.users, user_id)
        trial == db.subscription_rows[user_id] = <<>>
        t1 == create_trial_subscription(db.subscription_rows, user_id, now)
        bonus == referrer_id # NoneId /\ referrer_id # user_id /\ ~check_referral_used(db.referrals, user_id)
        t2 == IF bonus THEN extend_subscription(t1, user_id, "referral_bonus", BonusDays, now) ELSE t1
        rf == IF bonus THEN mark_referral_used(create_referral(db.referrals, referrer_id, user_id), user_id)
              ELSE db.referrals
    IN  IF is_new_user
        THEN [db EXCEPT !.users = authenticate_user(@, user_id),
                        !.subscription_rows = check_subscription_rows(t2, user_id, now),
                        !.referrals = rf,
                        !.log = (IF trial THEN <<Given(user_id, "trial")>> ELSE <<>>) \o
                                (IF bonus THEN <<Given(user_id, "bonus"), Answer(referrer_id, "referral_notice")>>
                                 ELSE <<>>) \o
                                <<Answer(user_id, "welcome")>>,
                        !.ev = [e0 EXCEPT !.outcome = "new"]]
        ELSE [db EXCEPT !.subscription_rows = check_subscription_rows(@, user_id, now),
                        !.log = <<Answer(user_id, "welcome")>>,
                        !.ev = [e0 EXCEPT !.outcome = "known"]]

\* dp.message(F.successful_payment): process_successful_payment; the payload
\* is subscription_{sub_type}_{user_id} as send_invoice built it.
process_successful_payment(db, user_id, sub_type) ==
    LET days == DaysOf(sub_type)
    IN  [db EXCEPT !.subscription_rows = extend_subscription(@, user_id, sub_type, days, now),
                   !.log = <<Given(user_id, "save_payment"), Answer(user_id, "paid")>>,
                   !.ev = [NoEvent EXCEPT !.type = "payment", !.sender = user_id, !.n = days,
                                          !.outcome = sub_type]]

MaxPlan == 4

MaxDay == 20

DayStep == 10

ApplyPlan(r) ==
    /\ users' = r.users
    /\ subscription_rows' = r.subscription_rows
    /\ referrals' = r.referrals
    /\ ev' = r.ev
    /\ log' = r.log
    /\ e2e' = e2e + 1
    /\ UNCHANGED <<msgs, stats, subscriptions, failed_logins, banned_users, tasks, files, recent_deletions, now>>

Has(l, what) == \E i \in 1..Len(l) : l[i].op = what

\* Nobody has written to the bot yet; hist counts, per user, the trials and
\* the referral bonuses given.
InitPlan ==
    /\ stats = [o \in Owners |-> ZeroStats]
    /\ recent_deletions = [c \in Chats |-> <<>>]
    /\ now = 0
    /\ tasks = <<>>
    /\ users = [x \in {} |-> 0]
    /\ failed_logins = <<>>
    /\ banned_users = {}
    /\ subscription_rows = [o \in Owners |-> <<>>]
    /\ referrals = {}
    /\ msgs = {} /\ files = {}
    /\ subscriptions = [o \in Owners |-> "none"]
    /\ ev = NoEvent /\ log = <<>> /\ e2e = 0
    /\ hist = [trial |-> [o \in Owners |-> 0], bonus |-> [o \in Owners |-> 0]]

\* What a /start gave to user_id, read from the subscriptions table before
\* (t) and after (t2) it: the trial is a row that appears, the bonus is a row
\* of type referral_bonus that was written by this command.
TrialGiven(t, t2, user_id) == t[user_id] = <<>> /\ t2[user_id] # <<>>

BonusGiven(t, t2, user_id) ==
    /\ t2[user_id] # <<>>
    /\ t2[user_id][1].subscription_type = "referral_bonus"
    /\ \/ t[user_id] = <<>>
       \/ t[user_id][1].subscription_type # "referral_bonus"
       \/ t[user_id][1].end_date # t2[user_id][1].end_date

\* /start, with or without a referral code.
StartCommand ==
    /\ e2e < MaxPlan
    /\ \E user_id \in Owners, referrer_id \in {NoneId} \cup Owners :
          /\ ApplyPlan(cmd_start(PlanDb, user_id, referrer_id))
          /\ hist' = [trial |-> [hist.trial EXCEPT ![user_id] =
                                    @ + (IF TrialGiven(subscription_rows, subscription_rows', user_id) THEN 1 ELSE 0)],
                      bonus |-> [hist.bonus EXCEPT ![user_id] =
                                    @ + (IF BonusGiven(subscription_rows, subscription_rows', user_id) THEN 1 ELSE 0)]]

\* A payment of user 1 for one of the three plans.
Payment ==
    /\ e2e < MaxPlan
    /\ \E sub_type \in {"week", "month", "year"} : ApplyPlan(process_successful_payment(PlanDb, 1, sub_type))
    /\ UNCHANGED hist

\* The admin revokes the subscription of user 1 (bot.py:2247).
AdminRevoke ==
    /\ e2e < MaxPlan
    /\ subscription_rows[1] # <<>>
    /\ ApplyPlan([PlanDb EXCEPT !.subscription_rows = revoke_subscription(@, 1),
                                !.ev = [NoEvent EXCEPT !.type = "revoke", !.sender = 1]])
    /\ UNCHANGED hist

\* Days pass.
PlanTick ==
    /\ now + DayStep <= MaxDay
    /\ now' = now + DayStep
    /\ UNCHANGED <<msgs, stats, subscriptions, users, subscription_rows, referrals, failed_logins, banned_users,
                   tasks, files, recent_deletions, ev, log, hist, e2e>>

NextPlan == StartCommand \/ Payment \/ AdminRevoke \/ PlanTick

SpecPlan == InitPlan /\ [][NextPlan]_vars

\* C31: check_subscription called right after a successful payment returns
\* active, whatever the subscription was before (none, active, revoked,
\* expired and not yet marked).
C31_ActiveAfterPayment ==
    [][(ev'.type = "payment" /\ e2e' = e2e + 1) =>
          check_subscription(subscription_rows', ev'.sender, now')]_vars

\* The only change a /start of an authenticated user makes to a subscription
\* row: an active row whose end date has passed is marked not active.
MarkedExpired(t, t2, user_id) ==
    /\ t[user_id] # <<>>
    /\ t[user_id][1].is_active
    /\ t[user_id][1].end_date < now
    /\ t2 = [t EXCEPT ![user_id] = <<[@[1] EXCEPT !.is_active = FALSE]>>]

\* C32: over any sequence of /start commands a user gets the trial at most
\* once and the referral bonus at most once, never for a code equal to the
\* user's own id; a /start of an authenticated user leaves the referrals table
\* alone and changes the subscription only by marking an expired row not
\* active.
C32_StartGivesOnce ==
    [][(ev'.type = "start" /\ e2e' = e2e + 1) =>
          /\ hist'.trial[ev'.sender] <= 1
          /\ hist'.bonus[ev'.sender] <= 1
          /\ BonusGiven(subscription_rows, subscription_rows', ev'.sender) => ev'.owner # ev'.sender
          /\ \A r \in referrals' : r.referrer_id # r.referred_id
          /\ is_user_authenticated(users, ev'.sender) =>
                /\ referrals' = referrals
                /\ \/ subscription_rows' = subscription_rows
                   \/ MarkedExpired(subscription_rows, subscription_rows', ev'.sender)]_vars

\* A user who got the trial and the bonus sends /start again with a code.
C32_Witness ==
    /\ ev.type = "start" /\ ev.outcome = "known"
    /\ ev.owner # NoneId /\ ev.owner # ev.sender
    /\ hist.trial[ev.sender] = 1 /\ hist.bonus[ev.sender] = 1

\* C32 as stated: a /start of an authenticated user changes neither the
\* subscription nor the referrals table.
C32_KnownStartChangesNothing ==
    [][(ev'.type = "start" /\ e2e' = e2e + 1 /\ is_user_authenticated(users, ev'.sender)) =>
          /\ referrals' = referrals
          /\ subscription_rows' = subscription_rows]_vars

---------------------------------------------------------------------------
(* Two owners who both talk to user 3: each has its own business connection *)
(* and its own rows under chat_id 3; Telegram delivers a deletion event on  *)
(* the connection of the owner in whose conversation it happened.           *)

MaxOwnerEvents == 2

\* The rows owner_id can hold for message id of chat 3: none, one written by
\* the counterpart, one written by the owner.
OwnerRowShapes(owner_id, id) ==
    {{},
     {Row(owner_id, 3, id, 3, Hello, "None", NoPath, NoneStr, "None")},
     {Row(owner_id, 3, id, owner_id, Hi, "None", NoPath, NoneStr, "None")}}

RECURSIVE OwnerStores(_, _)
OwnerStores(owner_id, k) ==
    IF k = 0 THEN {{}}
    ELSE {m \cup x : m \in OwnerStores(owner_id, k - 1), x \in OwnerRowShapes(owner_id, k)}

\* hist: the owner of the connection that delivered the last event, the store
\* and the counters before it, and per owner the window that this owner's own
\* deletions in chat 3 make up (pruned and appended as bot.py:3647-3650 does).
InitOwners ==
    /\ stats = [o \in Owners |-> ZeroStats]
    /\ users = [o \in Owners |-> [is_authenticated |-> TRUE, is_banned |-> FALSE]]
    /\ subscription_rows = [o \in Owners |-> <<>>]
    /\ referrals = {}
    /\ failed_logins = <<>>
    /\ banned_users = {}
    /\ tasks = <<>>
    /\ recent_deletions = [c \in Chats |-> <<>>]
    /\ now = 0
    /\ ev = NoEvent
    /\ log = <<>>
    /\ e2e = 0
    /\ files = {}
    /\ subscriptions = [o \in Owners |-> "active"]
    /\ \E m1 \in OwnerStores(1, MaxMsgId), m2 \in OwnerStores(2, MaxMsgId) : msgs = m1 \cup m2
    /\ hist = [conn_owner |-> NoneId, msgs |-> {}, stats |-> stats, window |-> [o \in Owners |-> <<>>]]

\* A deletion in the conversation of conn_owner with user 3: the event names
\* chat 3 and the ids; the handler does not read its business_connection_id.
DeletedVia ==
    /\ e2e < MaxOwnerEvents
    /\ \E conn_owner \in Owners, ids \in Batches(MaxMsgId) \ {<<>>}, pickFirst \in Owners, pick \in Owners :
          /\ DeletedMessages(3, ids, pickFirst, pick, {}, FALSE, "ok")
          /\ hist' = [conn_owner |-> conn_owner, msgs |-> msgs, stats |-> stats,
                      window |-> IF ev'.outcome = "no_row" THEN hist.window
                                 ELSE [hist.window EXCEPT ![conn_owner] = TrackDeletion(@, now, Len(ids))]]
    /\ e2e' = e2e + 1

OwnersTick ==
    /\ now + TickStep <= MaxTime
    /\ now' = now + TickStep
    /\ UNCHANGED <<msgs, stats, subscriptions, users, subscription_rows, referrals, failed_logins, banned_users,
                   tasks, files, recent_deletions, ev, log, hist, e2e>>

NextOwners == DeletedVia \/ OwnersTick

SpecOwners == InitOwners /\ [][NextOwners]_vars

RowsOfOthers(m, owner_id) == {r \in m : r.owner_id # owner_id}

\* C33: a deleted-messages event reads, notifies about and removes only rows
\* of the owner whose business connection delivered it; the rows and the
\* counters of another owner stay as they were and that owner is sent
\* nothing.
C33_OwnerIsolation ==
    ev.type = "deleted" =>
        /\ \A i \in 1..Len(log) : log[i].owner = hist.conn_owner
        /\ RowsOfOthers(msgs, hist.conn_owner) = RowsOfOthers(hist.msgs, hist.conn_owner)
        /\ \A o \in Owners \ {hist.conn_owner} : stats[o] = hist.stats[o]

\* C34: recent_total of a deletion event is the sum over the unexpired
\* deletions of the same owner's conversation; deletions in another owner's
\* conversation with the same counterpart do not enter it.
C34_WindowPerOwner ==
    (ev.type = "deleted" /\ ev.outcome # "no_row") =>
        ev.recent = SumCounts(hist.window[hist.conn_owner])

---------------------------------------------------------------------------
(* The gates of handle_business_message: message 2 of chat 3 arrives on any *)
(* connection; owner 1 may be unknown to the users table, not               *)
(* authenticated, or authenticated with any subscription state.             *)

GateReplies ==
    {NoReply,
     [message_id |-> 1, from_user |-> 3, media |-> "photo", caption |-> Cap],
     [message_id |-> 1, from_user |-> 3, media |-> "video", caption |-> NoneStr],
     [message_id |-> 1, from_user |-> 1, media |-> "photo", caption |-> NoneStr]}

\* hist is the store, the counters and the files before the message.
InitGate ==
    /\ stats = [o \in Owners |-> ZeroStats]
    /\ users \in {[o \in {2} |-> [is_authenticated |-> TRUE, is_banned |-> FALSE]],
                  [o \in Owners |-> [is_authenticated |-> (o = 2), is_banned |-> FALSE]],
                  [o \in Owners |-> [is_authenticated |-> TRUE, is_banned |-> FALSE]]}
    /\ subscription_rows = [o \in Owners |-> <<>>]
    /\ referrals = {}
    /\ failed_logins = <<>>
    /\ banned_users = {}
    /\ tasks = <<>>
    /\ recent_deletions = [c \in Chats |-> <<>>]
    /\ now = 0
    /\ ev = NoEvent
    /\ log = <<>>
    /\ e2e = 0
    /\ msgs \in {{}, {Row(1, 3, 1, 3, <<>>, "photo", MediaPath(3, 1, "photo"), Cap, "None")}}
    /\ files = {}
    /\ subscriptions \in {[o \in Owners |-> IF o = 1 THEN v ELSE "active"] : v \in {"active", "expired", "inactive"}}
    /\ hist = [msgs |-> msgs, stats |-> stats, files |-> files, subscriptions |-> subscriptions]

GateMessage ==
    /\ ev.type = "none"
    /\ \E conn \in Conns, from_user \in {1, 3}, media \in {"None", "photo"}, reply \in GateReplies,
          dl \in {"ok", "raise"}, rdl \in {"ok", "raise", "nofile", "saveraise"}, fwdFail \in BOOLEAN :
          BusinessMessage(conn, 3, 2, from_user, Hello, NoneStr, media, "None", reply, dl, rdl, fwdFail)
    /\ hist' = [msgs |-> msgs, stats |-> stats, files |-> files, subscriptions |-> subscriptions]
    /\ UNCHANGED e2e

NextGate == GateMessage

SpecGate == InitGate /\ [][NextGate]_vars

\* The message's own row was written or counted by the handler of ev.
OwnStored ==
    \/ \E o \in Owners : RowsAt(msgs, o, ev.chat, ev.mid) # RowsAt(hist.msgs, o, ev.chat, ev.mid)
    \/ \E o \in Owners : stats[o].total_messages # hist.stats[o].total_messages
    \/ \E i \in 1..Len(log) : log[i].op = "save" /\ log[i].id = ev.mid

\* The message replies to a photo or a video that the owner did not send.
RepliesToForeignMedia ==
    /\ ev.reply.message_id # 0
    /\ ev.reply.media \in {"photo", "video"}
    /\ ev.reply.from_user # ev.owner

\* C35: a business message is stored under its own id and counted only if its
\* connection maps to an owner who is authenticated and whose subscription is
\* active at that moment; the recovery of replied-to media runs for an
\* authenticated owner whatever the subscription, and when it forwarded the
\* media without an error the *_reply row is stored; with no owner for the
\* connection or an owner who is not authenticated nothing is stored, sent
\* or counted.
C35_Gates ==
    ev.type = "message" =>
        /\ OwnStored =>
              /\ ev.owner # NoneId
              /\ is_user_authenticated(users, ev.owner)
              /\ check_subscription_active(hist.subscriptions, ev.owner)
        /\ (ev.owner # NoneId /\ is_user_authenticated(users, ev.owner) /\ RepliesToForeignMedia) =>
              /\ Downloads(log) # {}
              /\ \A i \in Forwards(log, ev.reply.media \o "_reply") :
                    (log[i].ok /\ ~SaveRaised(log)) =>
                        \E r \in RowsAt(msgs, ev.owner, ev.chat, ev.reply.message_id) :
                            r.media_type = ev.reply.media \o "_reply"
        /\ (ev.owner = NoneId \/ ~is_user_authenticated(users, ev.owner)) =>
              /\ msgs = hist.msgs /\ stats = hist.stats /\ files = hist.files
              /\ log = <<>>

\* An authenticated owner without active subscription gets the replied-to
\* photo forwarded and stored, and the replying message itself is not stored.
C35_Witness ==
    /\ ev.type = "message" /\ ev.outcome = "no_subscription"
    /\ \E i \in Forwards(log, "photo_reply") : log[i].ok
    /\ \E r \in RowsAt(msgs, 1, 3, 1) : r.media_type = "photo_reply"
    /\ ~OwnStored

\* C36: the full edit notification shows the not-found marker as the old
\* text only when no row was stored for the key before the edit; when a row
\* was there (a media message stored with a caption and an empty text
\* included) the marker is not shown.
C36_MarkerOnlyWithoutRow ==
    [][(ev'.type = "edited" /\ ev'.outcome = "done") =>
          \A i \in EditNotes(log') :
              (log'[i].kind = "edit_full" /\ log'[i].old = NotFoundMark) =>
                  RowsAt(msgs, ev'.owner, ev'.chat, ev'.mid) = {}]_vars

---------------------------------------------------------------------------
(* Deletion handlers of one chat as concurrent tasks (dispatch as in the    *)
(* section on bot.py:3811): each runs from one await to the next, and the   *)
(* window update of bot.py:3638-3665 lies between two awaits.               *)

MaxWindowTasks == 2

\* An update that works on the window as the task saw it before its last
\* await and writes that back.
UpdateWindowFromSeen(w, seen, current_time, n) == TrackDeletion(seen, current_time, n)

\* bot.py:3638-3650: recent_deletions[chat_id] is read, pruned, appended to and
\* written back with no await in between, so it works on w, the window at this
\* moment; seen, the window at the task's previous await, plays no part.
UpdateWindow(w, seen, current_time, n) == TrackDeletion(w, current_time, n)

NewDeletion(ids) ==
    [kind |-> "deleted", pc |-> "start", ids |-> ids, owner |-> NoneId, total |-> 0,
     seen |-> <<>>, recent |-> 0, at |-> 0, pos |-> 0, clear |-> FALSE]

\* Owner 1's chat 3 holds two rows written by the counterpart; hist is
\* every entry ever appended to the window, in the order of the appends.
InitWindow ==
    /\ stats = [o \in Owners |-> ZeroStats]
    /\ users = [o \in Owners |-> [is_authenticated |-> TRUE, is_banned |-> FALSE]]
    /\ subscription_rows = [o \in Owners |-> <<>>]
    /\ referrals = {}
    /\ failed_logins = <<>>
    /\ banned_users = {}
    /\ tasks = <<>>
    /\ recent_deletions = [c \in Chats |-> <<>>]
    /\ now = 0
    /\ ev = NoEvent
    /\ log = <<>>
    /\ e2e = 0
    /\ files = {}
    /\ subscriptions = [o \in Owners |-> "active"]
    /\ msgs = {Row(1, 3, id, 3, Hello, "None", NoPath, NoneStr, "None") : id \in {1, 2}}
    /\ hist = <<>>

\* A deleted_business_messages update of chat 3 reaches the dispatcher.
DeliverDeletion ==
    /\ Len(tasks) < MaxWindowTasks
    /\ \E ids \in {<<1>>, <<1, 2>>} : tasks' = Append(tasks, NewDeletion(ids))
    /\ UNCHANGED <<msgs, stats, subscriptions, users, subscription_rows, referrals, failed_logins, banned_users,
                   files, recent_deletions, now, ev, log, hist, e2e>>

\* One task of handle_deleted_business_messages runs to its next await: the
\* owner query (3613-3626), the count (3629-3632), the window update and the
\* classification (3638-3665), then the archive and the loop (3671-3799),
\* which do not touch the window and are taken as one step. The messages
\* sent are not kept here.
DeletionStep ==
    \E i \in 1..Len(tasks) :
        LET t == tasks[i]
            n == Len(t.ids)
        IN  /\ t.pc # "done"
            /\ \/ /\ t.pc = "start"
                  /\ LET owners == FirstRowOwners(msgs, 3, t.ids)
                     IN  tasks' = [tasks EXCEPT ![i] =
                                      IF owners = {} THEN [t EXCEPT !.pc = "done"]
                                      ELSE [t EXCEPT !.pc = "owner", !.owner = PickOwner(owners, 1)]]
                  /\ UNCHANGED <<msgs, stats, subscriptions, recent_deletions, hist>>
               \/ /\ t.pc = "owner"
                  /\ tasks' = [tasks EXCEPT ![i] =
                                  [t EXCEPT !.pc = "counted", !.total = count_for_chat(msgs, t.owner, 3),
                                            !.seen = recent_deletions[3]]]
                  /\ UNCHANGED <<msgs, stats, subscriptions, recent_deletions, hist>>
               \/ /\ t.pc = "counted"
                  /\ LET w == UpdateWindow(recent_deletions[3], t.seen, now, n)
                     IN  /\ recent_deletions' = [recent_deletions EXCEPT ![3] = w]
                         /\ hist' = Append(hist, <<now, n>>)
                         /\ tasks' = [tasks EXCEPT ![i] =
                                         [t EXCEPT !.pc = "loop", !.recent = SumCounts(w), !.at = now,
                                                   !.pos = Len(hist) + 1,
                                                   !.clear = is_chat_clear(n, t.total, SumCounts(w))]]
                  /\ UNCHANGED <<msgs, stats, subscriptions>>
               \/ /\ t.pc = "loop"
                  /\ LET r == DeletionLoop(Db, 3, t.ids, 1, {}, FALSE)
                     IN  /\ msgs' = r.msgs
                         /\ stats' = r.stats
                         /\ subscriptions' = r.subscriptions
                  /\ tasks' = [tasks EXCEPT ![i].pc = "done"]
                  /\ UNCHANGED <<recent_deletions, hist>>
            /\ UNCHANGED <<users, subscription_rows, referrals, failed_logins, banned_users, files, now, ev, log,
                           e2e>>

WindowTick ==
    /\ now + TickStep <= MaxTime
    /\ now' = now + TickStep
    /\ UNCHANGED <<msgs, stats, subscriptions, users, subscription_rows, referrals, failed_logins, banned_users,
                   tasks, files, recent_deletions, ev, log, hist, e2e>>

NextWindow == DeliverDeletion \/ DeletionStep \/ WindowTick

SpecWindow == InitWindow /\ [][NextWindow]_vars

\* The entries appended up to position k that had not expired at time t.
UnexpiredUpTo(k, t) == SelectSeq(SubSeq(hist, 1, k), LAMBDA e : t - e[1] < Horizon)

\* C37: when deletion handlers of one chat interleave at their awaits, the
\* recent_total of each event is the sum of its own N and of every unexpired
\* entry appended by the handlers that reached the update before it, and
\* the window still holds every appended entry that has not expired.
C37_UpdateIsAtomic ==
    /\ \A i \in 1..Len(tasks) :
          tasks[i].pos # 0 =>
              /\ hist[tasks[i].pos] = <<tasks[i].at, Len(tasks[i].ids)>>
              /\ tasks[i].recent = SumCounts(UnexpiredUpTo(tasks[i].pos, tasks[i].at))
    /\ Prune(recent_deletions[3], now) = Prune(hist, now)

\* The handler delivered second updated the window first, the one delivered
\* first updated it while the other was still running, and counted both.
C37_Witness ==
    /\ Len(tasks) >= 2
    /\ tasks[2].pos = 1 /\ tasks[2].pc # "done"
    /\ tasks[1].pos = 2
    /\ tasks[1].recent = Len(tasks[1].ids) + Len(tasks[2].ids)

====
